---- MODULE Spec2Model ----
(***************************************************************************)
(* Model of kinetic_project.graphs: the degree calculator (deg_ops.py),    *)
(* the dimension/type validator (graph_dimen_type_val.py) and the graph    *)
(* operations of graph_ops.py (sink/source reducer, pruner, enumerator).   *)
(*                                                                         *)
(* A numpy matrix of shape (r, c) is a function [0..r-1 -> [0..c-1 -> Int]]*)
(* and an (n, 1) column vector is a function [0..n-1 -> Int]; vertex       *)
(* indices are 0-based as in the source.  Float and integer zeros are not  *)
(* distinguished (numpy.array_equal does not distinguish them either).     *)
(***************************************************************************)
EXTENDS Integers, Sequences, FiniteSets, TLC

VARIABLES
    op,             \* which public function the caller invoked
    argG,           \* caller's graph argument (adjacency matrix)
    argVerts,       \* caller's verts argument (optional)
    argK,           \* caller's k argument (optional)
    argV,           \* caller's v argument: None, an int, or a list of ints
    A,              \* iterate_subgraphs local A
    verts,          \* iterate_subgraphs local verts (bound to the argument on entry)
    k,              \* iterate_subgraphs local k (bound to the argument on entry)
    hashmap,        \* the memo table of the top-level call (set of recorded keys)
    subgraph_list,  \* iterate_subgraphs local subgraph_list
    rA,             \* A of the current validate_graph_sink_source_condition activation
    rverts,         \* verts of the current validate_graph_sink_source_condition activation
    passes,         \* activations of validate_graph_sink_source_condition completed so far
    ret,            \* value returned by validate_graph_sink_source_condition
    pc,             \* position of the call
    outcome,        \* "running", "returned", "ValueError" or "TypeError"
    argMode,        \* caller's in_or_out argument of in_or_out_deg
    result,         \* value returned by dimen_type_val, in_or_out_deg or prune_graph
    calls,          \* top-level calls the caller has started
    prev,           \* how the caller's previous top-level call ended
    heap,           \* the numpy arrays that exist, in order of creation
    argInPlace,     \* caller's in_place argument of zero_rows_and_cols
    sg,             \* arguments and locals of subgradient_descent
    args            \* arguments and locals of run_single_initialization and of
                    \* run_multiple_initializations_parallel

vars == <<op, argG, argVerts, argK, argV, A, verts, k, hashmap, subgraph_list,
          rA, rverts, passes, ret, pc, outcome, argMode, result, calls, prev, heap,
          argInPlace, sg, args>>

\* what the calls of iterate_subgraphs and of the reducer leave alone
callervars == <<argMode, result, calls, prev, heap, argInPlace, sg, args>>

----------------------------------------------------------------------------
(* Bounds of the model *)

MaxN == 3

MaxEdges == 2

MaxReq == 2

----------------------------------------------------------------------------
(* Python values *)

NoneVal == [some |-> FALSE]

\* F(e), with e evaluated once
Bind(e, F(_)) == CHOOSE out \in {F(x) : x \in {e}} : TRUE

Some(x) == [some |-> TRUE, val |-> x]

\* a supplied 1-dimensional vector, of shape (n,) instead of (n, 1)
Some1D(x) == [some |-> TRUE, val |-> x, ndim |-> 1]

Unbound == << >>

Idx(n) == 0 .. (n - 1)

Rows(M) == Cardinality(DOMAIN M)

Cols(M) == IF DOMAIN M = {} THEN 0 ELSE Cardinality(DOMAIN M[0])

Len1(vec) == Cardinality(DOMAIN vec)

\* verts.shape of a supplied vector
VShape(vs) ==
    IF "ndim" \in DOMAIN vs THEN << Len1(vs.val) >> ELSE << Len1(vs.val), 1 >>

RECURSIVE SumOver(_, _)
SumOver(f, S) ==
    IF S = {} THEN 0
    ELSE LET x == CHOOSE y \in S : TRUE IN f[x] + SumOver(f, S \ {x})

ones(n) == [i \in Idx(n) |-> 1]

zeros(r, c) == [i \in Idx(r) |-> [j \in Idx(c) |-> 0]]

zerosVec(n) == [i \in Idx(n) |-> 0]

\* builtin sum(sum(A)): sum(A) adds the rows (a vector of column sums), the
\* outer sum adds its entries
PySumSum(M) ==
    LET colsum == [j \in DOMAIN M[0] |-> SumOver([i \in DOMAIN M |-> M[i][j]], DOMAIN M)]
    IN  SumOver(colsum, DOMAIN colsum)

----------------------------------------------------------------------------
(* graph_dimen_type_val.py *)

\* graph_dimen_type_val without the comparison of dim1 and dim2
graph_dimen_type_val_no_check(G) == [ok |-> TRUE, A |-> G, dim |-> Rows(G)]

graph_dimen_type_val(G) ==
    IF Rows(G) = Cols(G)
    THEN [ok |-> TRUE, A |-> G, dim |-> Rows(G)]
    ELSE [ok |-> FALSE, err |-> "ValueError"]

\* dimen_type_val comparing only the length of verts with dim
dimen_type_val_length_only(G, vs) ==
    LET g == graph_dimen_type_val(G) IN
    IF ~g.ok THEN [ok |-> FALSE, err |-> "ValueError"]
    ELSE IF ~vs.some THEN [ok |-> TRUE, A |-> g.A, verts |-> ones(g.dim)]
    ELSE IF Len1(vs.val) # g.dim THEN [ok |-> FALSE, err |-> "ValueError"]
    ELSE [ok |-> TRUE, A |-> g.A, verts |-> vs.val]

dimen_type_val(G, vs) ==
    LET g == graph_dimen_type_val(G) IN
    IF ~g.ok THEN [ok |-> FALSE, err |-> "ValueError"]
    ELSE IF ~vs.some THEN [ok |-> TRUE, A |-> g.A, verts |-> ones(g.dim)]
    ELSE IF VShape(vs) # << g.dim, 1 >> THEN [ok |-> FALSE, err |-> "ValueError"]
    ELSE [ok |-> TRUE, A |-> g.A, verts |-> vs.val]

----------------------------------------------------------------------------
(* deg_ops.py *)

AllowedDegs_IN == 0

AllowedDegs_OUT == 1

\* in_or_out_deg with the two products exchanged
in_or_out_deg_swapped(G, in_or_out, vs) ==
    LET d == dimen_type_val(G, vs)
        M == d.A
        w == d.verts
    IN  IF in_or_out = AllowedDegs_IN
        THEN [j \in DOMAIN M |-> SumOver([i \in DOMAIN M |-> w[i] * M[i][j]], DOMAIN M)]
        ELSE [i \in DOMAIN M |-> SumOver([j \in DOMAIN M |-> M[i][j] * w[j]], DOMAIN M)]

\* numpy.matmul(A, verts) for IN, numpy.matmul(verts.T, A).T for OUT
in_or_out_deg(G, in_or_out, vs) ==
    Bind(dimen_type_val(G, vs), LAMBDA d :
        IF in_or_out = AllowedDegs_IN
        THEN [i \in DOMAIN d.A |->
                SumOver([j \in DOMAIN d.A |-> d.A[i][j] * d.verts[j]], DOMAIN d.A)]
        ELSE [j \in DOMAIN d.A |->
                SumOver([i \in DOMAIN d.A |-> d.verts[i] * d.A[i][j]], DOMAIN d.A)])

in_deg(G, vs) == in_or_out_deg(G, AllowedDegs_IN, vs)

out_deg(G, vs) == in_or_out_deg(G, AllowedDegs_OUT, vs)

----------------------------------------------------------------------------
(* graph_ops.py: helpers *)

\* the elementwise product in place of the logical and
logical_and_product(x, y) == [i \in DOMAIN x |-> x[i] * y[i]]

\* numpy.logical_and(x, y).astype(int)
logical_and(x, y) == [i \in DOMAIN x |-> IF x[i] # 0 /\ y[i] # 0 THEN 1 ELSE 0]

zero_rows_and_cols(mat, vec) ==
    [i \in DOMAIN mat |-> [j \in DOMAIN mat[i] |->
        IF vec[i] = 0 \/ vec[j] = 0 THEN 0 ELSE mat[i][j]]]

\* v is None, an int (wrapped into a one-element list) or a list of ints
ReqList(v) ==
    IF v.tag = "None" THEN << >>
    ELSE IF v.tag = "int" THEN << v.int >>
    ELSE v.list

\* validate_vertices without the test of the required vertices
validate_vertices_unchecked(active_verts, v) == TRUE

validate_vertices(active_verts, v) ==
    IF v.tag = "None" THEN TRUE
    ELSE ~(\E p \in DOMAIN ReqList(v) : active_verts[ReqList(v)[p]] = 0)

\* reducer_activation without line 149: the out-degree is not looked at
reducer_activation_in_deg_only(Ain, vin, v) ==
    LET verts2 == logical_and(vin, in_deg(Ain, NoneVal))
        A_new  == zero_rows_and_cols(Ain, verts2)
        dim    == Rows(Ain)
    IN  IF ~validate_vertices(verts2, v)
        THEN [kind |-> "return", sentinel |-> TRUE,
              A |-> zeros(dim, dim), verts |-> zerosVec(dim)]
        ELSE IF A_new = Ain
        THEN [kind |-> "return", sentinel |-> FALSE, A |-> A_new, verts |-> verts2]
        ELSE [kind |-> "recurse", sentinel |-> FALSE, A |-> A_new, verts |-> verts2]

\* reducer_activation without the test of line 156: it calls itself also
\* when A_new equals A
reducer_activation_always_recurse(Ain, vin, v) ==
    LET verts1 == logical_and(vin, in_deg(Ain, NoneVal))
        verts2 == logical_and(verts1, out_deg(Ain, NoneVal))
        A_new  == zero_rows_and_cols(Ain, verts2)
        dim    == Rows(Ain)
    IN  IF ~validate_vertices(verts2, v)
        THEN [kind |-> "return", sentinel |-> TRUE,
              A |-> zeros(dim, dim), verts |-> zerosVec(dim)]
        ELSE [kind |-> "recurse", sentinel |-> FALSE, A |-> A_new, verts |-> verts2]

\* reducer_activation with the recursion of line 158 dropped: the pair is
\* returned after a single pass
reducer_activation_single_pass(Ain, vin, v) ==
    LET verts1 == logical_and(vin, in_deg(Ain, NoneVal))
        verts2 == logical_and(verts1, out_deg(Ain, NoneVal))
        A_new  == zero_rows_and_cols(Ain, verts2)
        dim    == Rows(Ain)
    IN  IF ~validate_vertices(verts2, v)
        THEN [kind |-> "return", sentinel |-> TRUE,
              A |-> zeros(dim, dim), verts |-> zerosVec(dim)]
        ELSE [kind |-> "return", sentinel |-> FALSE, A |-> A_new, verts |-> verts2]

\* reducer_activation returning the reduced pair instead of the zero pair
\* when a required vertex is inactive
reducer_activation_no_sentinel(Ain, vin, v) ==
    LET verts1 == logical_and(vin, in_deg(Ain, NoneVal))
        verts2 == logical_and(verts1, out_deg(Ain, NoneVal))
        A_new  == zero_rows_and_cols(Ain, verts2)
    IN  IF ~validate_vertices(verts2, v)
        THEN [kind |-> "return", sentinel |-> TRUE, A |-> A_new, verts |-> verts2]
        ELSE IF A_new = Ain
        THEN [kind |-> "return", sentinel |-> FALSE, A |-> A_new, verts |-> verts2]
        ELSE [kind |-> "recurse", sentinel |-> FALSE, A |-> A_new, verts |-> verts2]

\* One activation of validate_graph_sink_source_condition on a validated
\* (A, verts): lines 148-158.  kind "return" carries the returned pair, kind
\* "recurse" the arguments of the recursive call of line 158.
reducer_activation(Ain, vin, v) ==
    Bind(logical_and(logical_and(vin, in_deg(Ain, NoneVal)), out_deg(Ain, NoneVal)),
         LAMBDA verts2 :
    Bind(zero_rows_and_cols(Ain, verts2),
         LAMBDA A_new :
        IF ~validate_vertices(verts2, v)
        THEN [kind |-> "return", sentinel |-> TRUE,
              A |-> zeros(Rows(Ain), Rows(Ain)), verts |-> zerosVec(Rows(Ain))]
        ELSE IF A_new = Ain
        THEN [kind |-> "return", sentinel |-> FALSE, A |-> A_new, verts |-> verts2]
        ELSE [kind |-> "recurse", sentinel |-> FALSE, A |-> A_new, verts |-> verts2]))

\* The whole recursive function, for a well-formed (G, vs)
RECURSIVE validate_graph_sink_source_condition(_, _, _)
validate_graph_sink_source_condition(G, vs, v) ==
    LET d == dimen_type_val(G, vs)
        r == reducer_activation(d.A, d.verts, v)
    IN  IF r.kind = "return" THEN [A |-> r.A, verts |-> r.verts]
        ELSE validate_graph_sink_source_condition(r.A, Some(r.verts), v)

\* numpy.nonzero(verts)[0]: the ascending list of the active indices
RECURSIVE AscendingList(_)
AscendingList(S) ==
    IF S = {} THEN << >>
    ELSE LET m == CHOOSE x \in S : \A y \in S : x <= y
         IN  << m >> \o AscendingList(S \ {m})

\* prune_graph setting active_eye[ind, ind] instead of active_eye[vert, ind]
prune_graph_leading_block(M, vs) ==
    LET active_verts == AscendingList({i \in DOMAIN vs : vs[i] # 0})
        m == Len(active_verts)
        active_eye == [i \in DOMAIN M |-> [c \in Idx(m) |-> IF c = i THEN 1 ELSE 0]]
        left == [a \in Idx(m) |-> [j \in DOMAIN M |->
                    SumOver([i \in DOMAIN M |-> active_eye[i][a] * M[i][j]], DOMAIN M)]]
        pruned_A == [a \in Idx(m) |-> [b \in Idx(m) |->
                    SumOver([j \in DOMAIN M |-> left[a][j] * active_eye[j][b]], DOMAIN M)]]
    IN  [A |-> pruned_A, verts |-> active_verts]

\* prune_graph multiplying in the other order: active_eye.T * A.T * active_eye
prune_graph_transposed(M, vs) ==
    LET active_verts == AscendingList({i \in DOMAIN vs : vs[i] # 0})
        m == Len(active_verts)
        active_eye == [i \in DOMAIN M |-> [c \in Idx(m) |->
                          IF active_verts[c + 1] = i THEN 1 ELSE 0]]
        left == [a \in Idx(m) |-> [j \in DOMAIN M |->
                    SumOver([i \in DOMAIN M |-> active_eye[i][a] * M[j][i]], DOMAIN M)]]
        pruned_A == [a \in Idx(m) |-> [b \in Idx(m) |->
                    SumOver([j \in DOMAIN M |-> left[a][j] * active_eye[j][b]], DOMAIN M)]]
    IN  [A |-> pruned_A, verts |-> active_verts]

prune_graph(M, vs) ==
    LET active_verts == AscendingList({i \in DOMAIN vs : vs[i] # 0})
        m == Len(active_verts)
        active_eye == [i \in DOMAIN M |-> [c \in Idx(m) |->
                          IF active_verts[c + 1] = i THEN 1 ELSE 0]]
        \* numpy.matmul(active_eye.T, A)
        left == [a \in Idx(m) |-> [j \in DOMAIN M |->
                    SumOver([i \in DOMAIN M |-> active_eye[i][a] * M[i][j]], DOMAIN M)]]
        \* numpy.matmul(pruned_A, active_eye)
        pruned_A == [a \in Idx(m) |-> [b \in Idx(m) |->
                    SumOver([j \in DOMAIN M |-> left[a][j] * active_eye[j][b]], DOMAIN M)]]
    IN  [A |-> pruned_A, verts |-> active_verts]

\* tuple(x) of a 2-dimensional numpy array: a tuple whose elements are the
\* rows of x, each of them a numpy.ndarray
PyTuple(x) == [p \in 1 .. Rows(x) |-> [type |-> "ndarray", val |-> x[p - 1]]]

\* the key of line 60
StateKey(M, vs) == << PyTuple(M), PyTuple(vs) >>

\* hash(key): a tuple hashes its elements; numpy.ndarray defines no __hash__
Hashable(key) ==
    \A c \in DOMAIN key : \A p \in DOMAIN key[c] : key[c][p].type # "ndarray"

\* line 72 taking one of the parallel edges away, as the comment of lines
\* 66-70 describes it
remove_edge_decrement(M, i, j) == [M EXCEPT ![i][j] = M[i][j] - 1]

\* the assignment of line 72 on a copy of A
remove_edge(M, i, j) == [M EXCEPT ![i][j] = 0]

\* line 57: the state a call of iterate_subgraphs works on; the verts
\* argument is not passed to the reducer
reduced_state(G, v) == validate_graph_sink_source_condition(G, NoneVal, v)

\* lines 71-75: the pair the recursive call for the entry (i, j) is made with
child_state(M, w, i, j, v) ==
    validate_graph_sink_source_condition(remove_edge(M, i, j), Some(w), v)

\* numpy.argwhere(A), line 65, as a set
argwhere(M) == {ij \in (DOMAIN M) \X (DOMAIN M) : M[ij[1]][ij[2]] # 0}

\* lines 54-55 with the edge count itself as the default bound
edge_bound_edge_count(kv, M) == IF kv.some THEN kv ELSE Some(PySumSum(M))

\* lines 54-55: k is the caller's bound or, when it is None, sum(sum(A)) + 1
edge_bound(kv, M) == IF kv.some THEN kv ELSE Some(PySumSum(M) + 1)

----------------------------------------------------------------------------
(* The same functions on array objects.  A heap is the sequence of the     *)
(* arrays created so far, a reference is a position in it, and 0 is None.  *)

\* a newly created array (numpy.ones, numpy.zeros, the result of an expression)
ndarray_new(h, x) == [heap |-> Append(h, x), ref |-> Len(h) + 1]

\* an assignment in place of .copy(): the result is the object itself
ndarray_copy_alias(h, r) == [heap |-> h, ref |-> r]

\* r.copy()
ndarray_copy(h, r) == ndarray_new(h, h[r])

\* an indexed assignment into the array r, which becomes x
ndarray_setitem(h, r, x) == [h EXCEPT ![r] = x]

\* dimen_type_val: A is G.copy(); verts is the caller's object, or new ones
dimen_type_val_refs(h, g, vs) ==
    LET c == ndarray_copy(h, g)
        a == graph_dimen_type_val(c.heap[c.ref])
    IN  IF ~a.ok THEN [ok |-> FALSE, err |-> "ValueError", heap |-> c.heap]
        ELSE IF vs = 0
        THEN LET o == ndarray_new(c.heap, ones(a.dim))
             IN  [ok |-> TRUE, heap |-> o.heap, A |-> c.ref, verts |-> o.ref]
        ELSE IF VShape(Some(c.heap[vs])) # << a.dim, 1 >>
        THEN [ok |-> FALSE, err |-> "ValueError", heap |-> c.heap]
        ELSE [ok |-> TRUE, heap |-> c.heap, A |-> c.ref, verts |-> vs]

\* zero_rows_and_cols without lines 218-219: the assignments go to mat itself
zero_rows_and_cols_refs_never_copy(h, mat, vec, in_place) ==
    [heap |-> ndarray_setitem(h, mat, zero_rows_and_cols(h[mat], h[vec])),
     ref |-> mat]

\* zero_rows_and_cols(mat, vec, in_place): the rows and columns are assigned
\* in mat itself or in mat.copy()
zero_rows_and_cols_refs(h, mat, vec, in_place) ==
    LET c == IF in_place THEN [heap |-> h, ref |-> mat] ELSE ndarray_copy(h, mat)
    IN  [heap |-> ndarray_setitem(c.heap, c.ref,
                                  zero_rows_and_cols(c.heap[c.ref], c.heap[vec])),
         ref |-> c.ref]

\* lines 153-158 of an activation whose A is a, whose verts is the array
\* vref and whose A_new is the array z.ref: the sentinel is two new arrays
reducer_return_refs(a, vref, z, v) ==
    IF ~validate_vertices(z.heap[vref], v)
    THEN LET dim == Rows(z.heap[a])
             zA == ndarray_new(z.heap, zeros(dim, dim))
         IN  [ok |-> TRUE, kind |-> "return",
              heap |-> Append(zA.heap, zerosVec(dim)),
              A |-> zA.ref, verts |-> Len(zA.heap) + 1]
    ELSE [ok |-> TRUE,
          kind |-> IF z.heap[z.ref] = z.heap[a] THEN "return" ELSE "recurse",
          heap |-> z.heap, A |-> z.ref, verts |-> vref]

\* line 150: A_new = zero_rows_and_cols(A.copy(), verts), c being A.copy()
reducer_zero_refs(a, vref, c, v) ==
    reducer_return_refs(a, vref, zero_rows_and_cols_refs(c.heap, c.ref, vref, FALSE), v)

\* lines 148-149: verts is rebound twice to the new array of a logical_and
reducer_degrees_refs(d, v) ==
    IF ~d.ok THEN d
    ELSE LET x1 == logical_and(d.heap[d.verts], in_deg(d.heap[d.A], NoneVal))
             x2 == logical_and(x1, out_deg(d.heap[d.A], NoneVal))
             h2 == Append(Append(d.heap, x1), x2)
         IN  reducer_zero_refs(d.A, Len(h2), ndarray_copy(h2, d.A), v)

\* one activation of validate_graph_sink_source_condition, lines 146-158
reducer_activation_refs(h, g, vs, v) ==
    reducer_degrees_refs(dimen_type_val_refs(h, g, vs), v)

\* the whole recursive function
RECURSIVE validate_graph_sink_source_condition_refs(_, _, _, _)
validate_graph_sink_source_condition_refs(h, g, vs, v) ==
    LET r == reducer_activation_refs(h, g, vs, v) IN
    IF ~r.ok \/ r.kind = "return" THEN r
    ELSE validate_graph_sink_source_condition_refs(r.heap, r.A, r.verts, v)

\* prune_graph, lines 100-107: the only array written is the new active_eye
prune_graph_refs(h, g, vs) ==
    LET d == dimen_type_val_refs(h, g, vs) IN
    IF ~d.ok THEN d
    ELSE
    LET p == prune_graph(d.heap[d.A], d.heap[d.verts])
        m == Len(p.verts)
        e == ndarray_new(d.heap, zeros(Rows(d.heap[d.A]), m))
        w == ndarray_setitem(e.heap, e.ref,
                 [i \in DOMAIN d.heap[d.A] |-> [c \in Idx(m) |->
                     IF p.verts[c + 1] = i THEN 1 ELSE 0]])
        r == ndarray_new(w, p.A)
    IN  [ok |-> TRUE, heap |-> r.heap, A |-> r.ref, verts |-> p.verts]

\* lines 71-72: this_A, this_verts = A.copy(), verts.copy(); this_A[i, j] = 0
child_state_refs(h, a, vs, i, j) ==
    LET ca == ndarray_copy(h, a)
        cv == ndarray_copy(ca.heap, vs)
    IN  [heap |-> ndarray_setitem(cv.heap, ca.ref, remove_edge(cv.heap[ca.ref], i, j)),
         A |-> ca.ref, verts |-> cv.ref]

----------------------------------------------------------------------------
(* Arguments a caller may pass *)

Positions(n) == Idx(n) \X Idx(n)

\* adjacency matrix of the directed multigraph on n vertices with edge list es
MatOf(n, es) ==
    [i \in Idx(n) |-> [j \in Idx(n) |->
        Cardinality({p \in DOMAIN es : es[p] = <<i, j>>})]]

GraphsUpTo(maxe) ==
    UNION {{MatOf(n, es) : es \in UNION {[1 .. e -> Positions(n)] : e \in 0 .. maxe}} :
           n \in 1 .. MaxN}

SquareGraphs == GraphsUpTo(MaxEdges)

NonSquareGraphs ==
    {zeros(r, c) : <<r, c>> \in {rc \in (1 .. MaxN) \X (1 .. MaxN) : rc[1] # rc[2]}}

GraphArgs == SquareGraphs \cup NonSquareGraphs

IsSquare(G) == Rows(G) = Cols(G)

VertsArgs(G) ==
    IF ~IsSquare(G) THEN {NoneVal}
    ELSE {NoneVal}
         \cup {Some(x) : x \in [Idx(Rows(G)) -> {0, 1}]}
         \cup {Some(ones(Rows(G) + 1))}

KArgs == {NoneVal, Some(MaxEdges)}

VNone == [tag |-> "None"]

VInt(i) == [tag |-> "int", int |-> i]

VList(l) == [tag |-> "list", list |-> l]

VArgs(G) ==
    IF ~IsSquare(G) THEN {VNone}
    ELSE {VNone}
         \cup {VInt(i) : i \in Idx(Rows(G))}
         \cup {VList(AscendingList(S)) :
                 S \in {T \in SUBSET Idx(Rows(G)) : Cardinality(T) <= MaxReq}}

----------------------------------------------------------------------------
(* The calls *)

Init ==
    /\ op \in {"iterate_subgraphs", "validate_graph_sink_source_condition"}
    /\ argG \in GraphArgs
    /\ argVerts \in VertsArgs(argG)
    /\ argK \in (IF op = "iterate_subgraphs" THEN KArgs ELSE {NoneVal})
    /\ argV \in VArgs(argG)
    /\ A = Unbound
    /\ verts = argVerts
    /\ k = argK
    /\ hashmap = {}
    /\ subgraph_list = << >>
    /\ rA = Unbound
    /\ rverts = Unbound
    /\ passes = 0
    /\ ret = NoneVal
    /\ pc = "call"
    /\ outcome = "running"
    /\ argMode = AllowedDegs_IN
    /\ result = NoneVal
    /\ calls = 1
    /\ prev = NoneVal
    /\ heap = << >>
    /\ argInPlace = FALSE
    /\ sg = NoneVal
    /\ args = NoneVal

\* iterate_subgraphs, lines 51-57: validate the input, create the memo table,
\* default k, and call the reducer as validate_graph_sink_source_condition(A, v=v)
\* (the verts argument is not passed, so line 146 creates a vector of ones)
IterEnter ==
    /\ pc = "call"
    /\ op = "iterate_subgraphs"
    /\ \E d \in {dimen_type_val(argG, argVerts)} :
       IF ~d.ok
       THEN /\ outcome' = d.err
            /\ pc' = "done"
            /\ UNCHANGED <<A, verts, k, rA, rverts>>
       ELSE /\ A' = d.A
            /\ verts' = Some(d.verts)
            /\ k' = edge_bound(k, d.A)
            /\ rA' = dimen_type_val(d.A, NoneVal).A
            /\ rverts' = dimen_type_val(d.A, NoneVal).verts
            /\ pc' = "reducer"
            /\ UNCHANGED outcome
    /\ hashmap' = {}
    /\ subgraph_list' = << >>
    /\ UNCHANGED <<op, argG, argVerts, argK, argV, passes, ret>>
    /\ UNCHANGED callervars

\* a direct call of validate_graph_sink_source_condition(A, verts, v): line 146
ValidateEnter ==
    /\ pc = "call"
    /\ op = "validate_graph_sink_source_condition"
    /\ \E d \in {dimen_type_val(argG, argVerts)} :
       IF ~d.ok
       THEN /\ outcome' = d.err
            /\ pc' = "done"
            /\ UNCHANGED <<rA, rverts>>
       ELSE /\ rA' = d.A
            /\ rverts' = d.verts
            /\ pc' = "reducer"
            /\ UNCHANGED outcome
    /\ UNCHANGED <<op, argG, argVerts, argK, argV, A, verts, k, hashmap,
                   subgraph_list, passes, ret>>
    /\ UNCHANGED callervars

\* one activation of validate_graph_sink_source_condition, lines 148-158: it
\* returns (to iterate_subgraphs or to the caller) or calls itself on the
\* reduced pair
ReducerPass ==
    /\ pc = "reducer"
    /\ \E r \in {reducer_activation(rA, rverts, argV)} :
       IF r.kind = "recurse"
       THEN /\ rA' = r.A
            /\ rverts' = r.verts
            /\ UNCHANGED <<ret, pc, outcome>>
       ELSE /\ ret' = Some([A |-> r.A, verts |-> r.verts, sentinel |-> r.sentinel])
            /\ pc' = IF op = "iterate_subgraphs" THEN "memo" ELSE "done"
            /\ outcome' = IF op = "iterate_subgraphs" THEN outcome ELSE "returned"
            /\ UNCHANGED <<rA, rverts>>
    /\ passes' = passes + 1
    /\ UNCHANGED <<op, argG, argVerts, argK, argV, A, verts, k, hashmap, subgraph_list>>
    /\ UNCHANGED callervars

\* iterate_subgraphs, lines 57-60: bind the reduced pair, build the key and
\* look it up in the memo table.  The lookup hashes the key; for a matrix of
\* dimension >= 1 the key holds numpy arrays, hash() raises TypeError and the
\* call ends there, before line 62 records anything.
IterMemoLookup ==
    /\ pc = "memo"
    /\ op = "iterate_subgraphs"
    /\ A' = ret.val.A
    /\ verts' = Some(ret.val.verts)
    /\ ~Hashable(StateKey(ret.val.A, ret.val.verts))
    /\ outcome' = "TypeError"
    /\ pc' = "done"
    /\ UNCHANGED <<op, argG, argVerts, argK, argV, k, hashmap, subgraph_list,
                   rA, rverts, passes, ret>>
    /\ UNCHANGED callervars

Next == IterEnter \/ ValidateEnter \/ ReducerPass \/ IterMemoLookup

Spec == Init /\ [][Next]_vars

\* the calls of iterate_subgraphs, on every input of Init
InitIter == Init /\ op = "iterate_subgraphs"

NextIter == IterEnter \/ ReducerPass \/ IterMemoLookup

SpecIter == InitIter /\ [][NextIter]_vars

\* the same calls; the call is sequential code: an enabled step is taken
SpecIterFair == InitIter /\ [][NextIter]_vars /\ WF_vars(NextIter)

----------------------------------------------------------------------------
(* Direct calls of dimen_type_val, in_or_out_deg and prune_graph *)

FnGraphArgs == GraphsUpTo(MaxEdges + 1) \cup NonSquareGraphs \cup {zeros(1, 0)}

FnVertsArgs(G) ==
    IF ~IsSquare(G) THEN {NoneVal}
    ELSE VertsArgs(G) \cup {Some1D(ones(Rows(G)))}

InitFn ==
    /\ op \in {"dimen_type_val", "in_or_out_deg", "prune_graph"}
    /\ argG \in FnGraphArgs
    /\ argVerts \in FnVertsArgs(argG)
    /\ argMode \in (IF op = "in_or_out_deg"
                     THEN {AllowedDegs_IN, AllowedDegs_OUT} ELSE {AllowedDegs_IN})
    /\ argK = NoneVal
    /\ argV = VNone
    /\ A = Unbound
    /\ verts = argVerts
    /\ k = argK
    /\ hashmap = {}
    /\ subgraph_list = << >>
    /\ rA = Unbound
    /\ rverts = Unbound
    /\ passes = 0
    /\ ret = NoneVal
    /\ pc = "call"
    /\ outcome = "running"
    /\ result = NoneVal
    /\ calls = 1
    /\ prev = NoneVal
    /\ heap = << >>
    /\ argInPlace = FALSE
    /\ sg = NoneVal
    /\ args = NoneVal

graphvars == <<op, argG, argVerts, argK, argV, A, verts, k, hashmap, subgraph_list,
               rA, rverts, passes, ret, argMode, calls, prev, argInPlace, sg, args>>

\* dimen_type_val(G, verts), lines 40-47
CallDimenTypeVal ==
    /\ pc = "call"
    /\ op = "dimen_type_val"
    /\ LET d == dimen_type_val(argG, argVerts) IN
       IF ~d.ok
       THEN /\ outcome' = d.err
            /\ UNCHANGED result
       ELSE /\ outcome' = "returned"
            /\ result' = Some([A |-> d.A, verts |-> d.verts])
    /\ pc' = "done"
    /\ UNCHANGED graphvars
    /\ UNCHANGED heap

\* in_or_out_deg(G, in_or_out, verts) with a member of AllowedDegs, lines 44-49
CallInOrOutDeg ==
    /\ pc = "call"
    /\ op = "in_or_out_deg"
    /\ LET d == dimen_type_val(argG, argVerts) IN
       IF ~d.ok
       THEN /\ outcome' = d.err
            /\ UNCHANGED result
       ELSE /\ outcome' = "returned"
            /\ result' = Some(in_or_out_deg(argG, argMode, argVerts))
    /\ pc' = "done"
    /\ UNCHANGED graphvars
    /\ UNCHANGED heap

\* prune_graph(A, verts), lines 100-107
CallPruneGraph ==
    /\ pc = "call"
    /\ op = "prune_graph"
    /\ LET d == dimen_type_val(argG, argVerts) IN
       IF ~d.ok
       THEN /\ outcome' = d.err
            /\ UNCHANGED result
       ELSE /\ outcome' = "returned"
            /\ result' = Some(prune_graph(d.A, d.verts))
    /\ pc' = "done"
    /\ UNCHANGED graphvars
    /\ UNCHANGED heap

NextFn == CallDimenTypeVal \/ CallInOrOutDeg \/ CallPruneGraph

SpecFn == InitFn /\ [][NextFn]_vars

----------------------------------------------------------------------------
(* Direct calls of validate_graph_sink_source_condition *)

InitReducer ==
    /\ op = "validate_graph_sink_source_condition"
    /\ argG \in GraphArgs
    /\ argVerts \in VertsArgs(argG)
    /\ argV \in (IF ~IsSquare(argG) THEN {VNone}
                 ELSE {VNone} \cup {VInt(i) : i \in Idx(Rows(argG))})
    /\ argK = NoneVal
    /\ A = Unbound
    /\ verts = argVerts
    /\ k = argK
    /\ hashmap = {}
    /\ subgraph_list = << >>
    /\ rA = Unbound
    /\ rverts = Unbound
    /\ passes = 0
    /\ ret = NoneVal
    /\ pc = "call"
    /\ outcome = "running"
    /\ argMode = AllowedDegs_IN
    /\ result = NoneVal
    /\ calls = 1
    /\ prev = NoneVal
    /\ heap = << >>
    /\ argInPlace = FALSE
    /\ sg = NoneVal
    /\ args = NoneVal

NextReducer == ValidateEnter \/ ReducerPass

SpecReducer == InitReducer /\ [][NextReducer]_vars

\* the same calls; the call is sequential code: an enabled step is taken
SpecReducerFair ==
    InitReducer /\ [][NextReducer]_vars /\ WF_vars(NextReducer)

----------------------------------------------------------------------------
(* in_or_out_deg called with any object as in_or_out *)

\* a member of the enumeration, a plain int, the string "invalid_enum"
EnumMember(val) == [kind |-> "AllowedDegs", value |-> val]

PyInt(val) == [kind |-> "int", value |-> val]

PyStr(val) == [kind |-> "str", value |-> val]

ModeArgs ==
    {EnumMember(AllowedDegs_IN), EnumMember(AllowedDegs_OUT),
     PyInt(0), PyInt(1), PyInt(2), PyStr("invalid_enum")}

\* the interpreters the package runs on: EnumMeta.__contains__ raises
\* TypeError for a non-member before 3.12 and looks the value up from 3.12 on
PythonVersions == {"3.11", "3.12"}

\* in_or_out not in AllowedDegs, line 45
NotInAllowedDegs(mode, python) ==
    IF mode.kind = "AllowedDegs" THEN [ok |-> TRUE, val |-> FALSE]
    ELSE IF python = "3.11" THEN [ok |-> FALSE, err |-> "TypeError"]
    ELSE [ok |-> TRUE,
          val |-> ~(mode.kind = "int" /\ mode.value \in {AllowedDegs_IN, AllowedDegs_OUT})]

\* in_or_out == AllowedDegs.IN, line 47: members of a plain Enum are equal
\* to themselves only
IsAllowedDegsIN(mode) == mode.kind = "AllowedDegs" /\ mode.value = AllowedDegs_IN

\* in_or_out_deg, lines 44-49, for any in_or_out
in_or_out_deg_any(G, mode, vs, python) ==
    LET d == dimen_type_val(G, vs)
        t == NotInAllowedDegs(mode, python)
    IN  IF ~d.ok THEN [ok |-> FALSE, err |-> d.err]
        ELSE IF ~t.ok THEN [ok |-> FALSE, err |-> t.err]
        ELSE IF t.val THEN [ok |-> FALSE, err |-> "ValueError"]
        ELSE IF IsAllowedDegsIN(mode)
        THEN [ok |-> TRUE, val |-> in_or_out_deg(G, AllowedDegs_IN, vs)]
        ELSE [ok |-> TRUE, val |-> in_or_out_deg(G, AllowedDegs_OUT, vs)]

InitMode ==
    /\ op = "in_or_out_deg"
    /\ argG \in GraphArgs
    /\ argVerts \in VertsArgs(argG)
    /\ argMode \in ModeArgs
    /\ argK = NoneVal
    /\ argV = VNone
    /\ A = Unbound
    /\ verts = argVerts
    /\ k = argK
    /\ hashmap = {}
    /\ subgraph_list = << >>
    /\ rA = Unbound
    /\ rverts = Unbound
    /\ passes = 0
    /\ ret = NoneVal
    /\ pc = "call"
    /\ outcome = "running"
    /\ result = NoneVal
    /\ calls = 1
    /\ prev = NoneVal
    /\ heap = << >>
    /\ argInPlace = FALSE
    /\ sg = NoneVal
    /\ args = NoneVal

\* in_or_out_deg(G, in_or_out, verts) on one of the interpreters
CallInOrOutDegAnyMode ==
    /\ pc = "call"
    /\ op = "in_or_out_deg"
    /\ \E python \in PythonVersions :
          LET r == in_or_out_deg_any(argG, argMode, argVerts, python) IN
          IF ~r.ok
          THEN /\ outcome' = r.err
               /\ UNCHANGED result
          ELSE /\ outcome' = "returned"
               /\ result' = Some(r.val)
    /\ pc' = "done"
    /\ UNCHANGED graphvars
    /\ UNCHANGED heap

NextMode == CallInOrOutDegAnyMode

SpecMode == InitMode /\ [][NextMode]_vars

----------------------------------------------------------------------------
(* Two top-level calls of iterate_subgraphs with the same arguments *)

InitRepeat ==
    /\ Init
    /\ op = "iterate_subgraphs"

\* the caller keeps how the first call ended and calls again with the same
\* (G, verts, k, v) and no hashmap
IterCallAgain ==
    /\ op = "iterate_subgraphs"
    /\ pc = "done"
    /\ calls = 1
    /\ prev' = Some([outcome |-> outcome, subgraph_list |-> subgraph_list])
    /\ calls' = calls + 1
    /\ A' = Unbound
    /\ verts' = argVerts
    /\ k' = argK
    /\ rA' = Unbound
    /\ rverts' = Unbound
    /\ passes' = 0
    /\ ret' = NoneVal
    /\ pc' = "call"
    /\ outcome' = "running"
    /\ UNCHANGED <<op, argG, argVerts, argK, argV, hashmap, subgraph_list,
                   argMode, result, heap, argInPlace, sg, args>>

NextRepeat == IterEnter \/ ReducerPass \/ IterMemoLookup \/ IterCallAgain

SpecRepeat == InitRepeat /\ [][NextRepeat]_vars

----------------------------------------------------------------------------
(* One call of each graph operation on the caller's array objects; here  *)
(* rA, rverts and result hold references into the heap                     *)

CallerG == 1

CallerVerts == IF argVerts.some THEN 2 ELSE 0

FrameVArgs(G) ==
    IF ~IsSquare(G) THEN {VNone}
    ELSE {VNone} \cup {VInt(i) : i \in Idx(Rows(G))}

InitFrame ==
    /\ op \in {"dimen_type_val", "validate_graph_sink_source_condition",
               "prune_graph", "iterate_subgraphs"}
    /\ argG \in GraphArgs
    /\ argVerts \in VertsArgs(argG)
    /\ argK = NoneVal
    /\ argV \in (IF op \in {"validate_graph_sink_source_condition", "iterate_subgraphs"}
                 THEN FrameVArgs(argG) ELSE {VNone})
    /\ A = Unbound
    /\ verts = argVerts
    /\ k = argK
    /\ hashmap = {}
    /\ subgraph_list = << >>
    /\ rA = CallerG
    /\ rverts = CallerVerts
    /\ passes = 0
    /\ ret = NoneVal
    /\ pc = "call"
    /\ outcome = "running"
    /\ argMode = AllowedDegs_IN
    /\ result = NoneVal
    /\ calls = 1
    /\ prev = NoneVal
    /\ heap = IF argVerts.some THEN << argG, argVerts.val >> ELSE << argG >>
    /\ argInPlace = FALSE
    /\ sg = NoneVal
    /\ args = NoneVal

framefixed == <<op, argG, argVerts, argK, argV, A, verts, k, hashmap, subgraph_list,
                ret, argMode, calls, prev, argInPlace, sg, args>>

\* dimen_type_val(G, verts)
FrameDimenTypeVal ==
    /\ pc = "call"
    /\ op = "dimen_type_val"
    /\ LET d == dimen_type_val_refs(heap, CallerG, CallerVerts) IN
       /\ heap' = d.heap
       /\ IF ~d.ok
          THEN outcome' = d.err /\ UNCHANGED result
          ELSE outcome' = "returned" /\ result' = Some([A |-> d.A, verts |-> d.verts])
    /\ pc' = "done"
    /\ UNCHANGED <<framefixed, rA, rverts, passes>>

\* prune_graph(A, verts)
FramePruneGraph ==
    /\ pc = "call"
    /\ op = "prune_graph"
    /\ LET d == prune_graph_refs(heap, CallerG, CallerVerts) IN
       /\ heap' = d.heap
       /\ IF ~d.ok
          THEN outcome' = d.err /\ UNCHANGED result
          ELSE outcome' = "returned" /\ result' = Some([A |-> d.A, verts |-> d.verts])
    /\ pc' = "done"
    /\ UNCHANGED <<framefixed, rA, rverts, passes>>

\* iterate_subgraphs, lines 51-57: A is a copy of G, the reducer is called
\* with A and no verts
FrameIterEnter ==
    /\ pc = "call"
    /\ op = "iterate_subgraphs"
    /\ LET d == dimen_type_val_refs(heap, CallerG, CallerVerts) IN
       /\ heap' = d.heap
       /\ IF ~d.ok
          THEN /\ outcome' = d.err
               /\ pc' = "done"
               /\ UNCHANGED <<result, rA, rverts>>
          ELSE /\ result' = Some([A |-> d.A, verts |-> d.verts])
               /\ rA' = d.A
               /\ rverts' = 0
               /\ pc' = "reducer"
               /\ UNCHANGED outcome
    /\ UNCHANGED <<framefixed, passes>>

\* one activation of validate_graph_sink_source_condition on (rA, rverts)
FrameReducerPass ==
    /\ \/ pc = "call" /\ op = "validate_graph_sink_source_condition"
       \/ pc = "reducer"
    /\ LET r == reducer_activation_refs(heap, rA, rverts, argV) IN
       /\ heap' = r.heap
       /\ IF ~r.ok
          THEN /\ outcome' = r.err
               /\ pc' = "done"
               /\ UNCHANGED <<result, rA, rverts>>
          ELSE IF r.kind = "recurse"
          THEN /\ rA' = r.A
               /\ rverts' = r.verts
               /\ pc' = "reducer"
               /\ UNCHANGED <<result, outcome>>
          ELSE /\ result' = Some([A |-> r.A, verts |-> r.verts])
               /\ pc' = IF op = "iterate_subgraphs" THEN "memo" ELSE "done"
               /\ outcome' = IF op = "iterate_subgraphs" THEN outcome ELSE "returned"
               /\ UNCHANGED <<rA, rverts>>
    /\ passes' = passes + 1
    /\ UNCHANGED framefixed

\* iterate_subgraphs, lines 57-60: hashing the key raises TypeError
FrameMemoLookup ==
    /\ pc = "memo"
    /\ ~Hashable(StateKey(heap[result.val.A], heap[result.val.verts]))
    /\ outcome' = "TypeError"
    /\ pc' = "done"
    /\ UNCHANGED <<framefixed, heap, result, rA, rverts, passes>>

NextFrame ==
    \/ FrameDimenTypeVal
    \/ FramePruneGraph
    \/ FrameIterEnter
    \/ FrameReducerPass
    \/ FrameMemoLookup

SpecFrame == InitFrame /\ [][NextFrame]_vars

----------------------------------------------------------------------------
(* One call of zero_rows_and_cols(mat, vec, in_place) on the caller's arrays *)

CallerMat == 1

CallerVec == 2

InitZero ==
    /\ op = "zero_rows_and_cols"
    /\ argG \in SquareGraphs
    /\ argVerts \in {vs \in VertsArgs(argG) : vs.some /\ Len1(vs.val) = Rows(argG)}
    /\ argInPlace \in BOOLEAN
    /\ argK = NoneVal
    /\ argV = VNone
    /\ A = Unbound
    /\ verts = argVerts
    /\ k = argK
    /\ hashmap = {}
    /\ subgraph_list = << >>
    /\ rA = CallerMat
    /\ rverts = CallerVec
    /\ passes = 0
    /\ ret = NoneVal
    /\ pc = "call"
    /\ outcome = "running"
    /\ argMode = AllowedDegs_IN
    /\ result = NoneVal
    /\ calls = 1
    /\ prev = NoneVal
    /\ heap = << argG, argVerts.val >>
    /\ sg = NoneVal
    /\ args = NoneVal

\* zero_rows_and_cols(mat, vec, in_place), lines 218-223
FrameZeroRowsAndCols ==
    /\ pc = "call"
    /\ op = "zero_rows_and_cols"
    /\ LET z == zero_rows_and_cols_refs(heap, CallerMat, CallerVec, argInPlace) IN
       /\ heap' = z.heap
       /\ result' = Some([A |-> z.ref, verts |-> CallerVec])
    /\ outcome' = "returned"
    /\ pc' = "done"
    /\ UNCHANGED <<framefixed, rA, rverts, passes>>

NextZero == FrameZeroRowsAndCols

SpecZero == InitZero /\ [][NextZero]_vars

----------------------------------------------------------------------------
(* subgradient_methods.py.  A float is an IEEE 754 double: [neg, m, e] is  *)
(* the number (-1)^neg * m * 2^e, where m is an odd natural number below   *)
(* 2^53 written as a sequence of base-8192 digits, lowest first; zero is   *)
(* [FALSE, << >>, 0].  Every operation computes the exact result and       *)
(* rounds it to the nearest double, ties to even, as the hardware does.    *)
(* The exponent is not bounded: no value of these runs comes near the      *)
(* largest or the smallest double.                                         *)

MaxIter == 2

MaxFuncs == 2

MaxStarts == 2

RECURSIVE MagTrim(_)
MagTrim(m) ==
    IF m # << >> /\ m[Len(m)] = 0 THEN MagTrim(SubSeq(m, 1, Len(m) - 1)) ELSE m

MagDigit(m, p) == IF p \in DOMAIN m THEN m[p] ELSE 0

\* the digits of the number whose p-th column holds cols[p], from column p
\* on, with carry c
RECURSIVE MagCarry(_, _, _)
MagCarry(cols, p, c) ==
    IF p > Len(cols) /\ c = 0 THEN << >>
    ELSE LET t == MagDigit(cols, p) + c
         IN  << t % 8192 >> \o MagCarry(cols, p + 1, t \div 8192)

MagLen(a, b) == IF Len(a) < Len(b) THEN Len(b) ELSE Len(a)

MagAdd(a, b) ==
    MagCarry([p \in 1 .. MagLen(a, b) |-> MagDigit(a, p) + MagDigit(b, p)], 1, 0)

\* a - b for a >= b
MagSub(a, b) ==
    MagTrim(MagCarry([p \in 1 .. MagLen(a, b) |-> MagDigit(a, p) - MagDigit(b, p)], 1, 0))

RECURSIVE MagColumn(_, _, _, _)
MagColumn(a, b, p, i) ==
    IF i > Len(a) THEN 0
    ELSE a[i] * MagDigit(b, p - i + 1) + MagColumn(a, b, p, i + 1)

MagMul(a, b) ==
    MagTrim(MagCarry([p \in 1 .. Len(a) + Len(b) |-> MagColumn(a, b, p, 1)], 1, 0))

RECURSIVE MagLessFrom(_, _, _)
MagLessFrom(a, b, p) ==
    IF p = 0 THEN FALSE
    ELSE IF a[p] # b[p] THEN a[p] < b[p]
    ELSE MagLessFrom(a, b, p - 1)

MagLess(a, b) ==
    \/ Len(a) < Len(b)
    \/ Len(a) = Len(b) /\ MagLessFrom(a, b, Len(a))

RECURSIVE IntMag(_)
IntMag(n) == IF n = 0 THEN << >> ELSE << n % 8192 >> \o IntMag(n \div 8192)

RECURSIVE BitLen(_)
BitLen(d) == IF d = 0 THEN 0 ELSE 1 + BitLen(d \div 2)

\* the number of binary digits of m
MagBits(m) == IF m = << >> THEN 0 ELSE 13 * (Len(m) - 1) + BitLen(m[Len(m)])

\* m * 2^s
MagShl(m, s) ==
    IF m = << >> \/ s = 0 THEN m
    ELSE [p \in 1 .. (s \div 13) |-> 0]
         \o MagCarry([p \in DOMAIN m |-> m[p] * 2^(s % 13)], 1, 0)

\* m \div 2^s
MagShr(m, s) ==
    LET t == SubSeq(m, (s \div 13) + 1, Len(m))
    IN  IF s = 0 THEN m
        ELSE MagTrim([p \in DOMAIN t |-> t[p] \div 2^(s % 13)
                                         + (MagDigit(t, p + 1) % 2^(s % 13)) * 2^(13 - (s % 13))])

RECURSIVE TrailingZeros(_)
TrailingZeros(d) == IF d % 2 = 1 THEN 0 ELSE 1 + TrailingZeros(d \div 2)

\* the double m * 2^e for m below 2^53, with m made odd
RECURSIVE FloatNorm(_, _, _)
FloatNorm(neg, m, e) ==
    IF m = << >> THEN [neg |-> FALSE, m |-> m, e |-> 0]
    ELSE IF m[1] = 0 THEN FloatNorm(neg, Tail(m), e + 13)
    ELSE [neg |-> neg, m |-> MagShr(m, TrailingZeros(m[1])),
          e |-> e + TrailingZeros(m[1])]

\* binary digit i of m, digit 0 being the lowest
MagBit(m, i) == (MagDigit(m, i \div 13 + 1) \div 2^(i % 13)) % 2

\* the binary digits of m below digit i are all 0
MagLowZero(m, i) ==
    /\ \A p \in 1 .. (i \div 13) : MagDigit(m, p) = 0
    /\ MagDigit(m, i \div 13 + 1) % 2^(i % 13) = 0

\* m without its lowest s binary digits, rounded to the nearest number, to
\* the even one of two; sticky: a digit below those of m is not 0
MagRound(m, s, sticky) ==
    IF /\ MagBit(m, s - 1) = 1
       /\ \/ ~MagLowZero(m, s - 1)
          \/ sticky
          \/ MagBit(m, s) = 1
    THEN MagAdd(MagShr(m, s), << 1 >>)
    ELSE MagShr(m, s)

\* the double nearest to m * 2^e, or to a number just above it when sticky;
\* of two nearest doubles the one with the even 53-bit mantissa
FloatRoundAt(neg, m, e, sticky, s) ==
    FloatNorm(neg, IF s <= 0 THEN m ELSE MagRound(m, s, sticky),
              IF s <= 0 THEN e ELSE e + s)

FloatRound(neg, m, e, sticky) == FloatRoundAt(neg, m, e, sticky, MagBits(m) - 53)

\* the float of the integer n
FloatInt(n) == FloatNorm(n < 0, IntMag(IF n < 0 THEN -n ELSE n), 0)

FloatNeg(a) == IF a.m = << >> THEN a ELSE [a EXCEPT !.neg = ~@]

FloatAbs(a) == [a EXCEPT !.neg = FALSE]

\* the sum of the numbers with signs na, nb and magnitudes ma * 2^e,
\* mb * 2^e
FloatAddMag(na, ma, nb, mb, e) ==
    FloatRound(IF na = nb \/ ~MagLess(ma, mb) THEN na ELSE nb,
               IF na = nb THEN MagAdd(ma, mb)
               ELSE IF MagLess(ma, mb) THEN MagSub(mb, ma)
               ELSE MagSub(ma, mb),
               e, FALSE)

FloatAddAt(a, b, e) ==
    FloatAddMag(a.neg, MagShl(a.m, a.e - e), b.neg, MagShl(b.m, b.e - e), e)

FloatAdd(a, b) ==
    IF a.m = << >> THEN b
    ELSE IF b.m = << >> THEN a
    ELSE FloatAddAt(a, b, IF a.e < b.e THEN a.e ELSE b.e)

FloatSub(a, b) == FloatAdd(a, FloatNeg(b))

FloatMul(a, b) == FloatRound(a.neg # b.neg, MagMul(a.m, b.m), a.e + b.e, FALSE)

RECURSIVE MagInt(_)
MagInt(m) == IF m = << >> THEN 0 ELSE m[1] + 8192 * MagInt(Tail(m))

\* a number below 2^54 as the pair of its digits in base 2^27
MagPair(m) ==
    [h |-> MagInt(MagShr(m, 27)), l |-> MagInt(MagSub(m, MagShl(MagShr(m, 27), 27)))]

\* j more binary digits of the quotient by d, r being the remainder so far
\* and acc the digits so far
RECURSIVE DivBits(_, _, _, _)
DivBits(r, d, j, acc) ==
    IF j = 0 THEN [q |-> acc, r |-> r]
    ELSE LET h2 == 2 * r.h + (2 * r.l) \div 134217728
             l2 == (2 * r.l) % 134217728
         IN  IF h2 < d.h \/ (h2 = d.h /\ l2 < d.l)
             THEN DivBits([h |-> h2, l |-> l2], d, j - 1, 2 * acc)
             ELSE DivBits([h |-> h2 - d.h + (l2 - d.l) \div 134217728,
                           l |-> (l2 - d.l) % 134217728], d, j - 1, 2 * acc + 1)

\* j more base-8192 digits of the quotient by d, lowest first
RECURSIVE DivDigits(_, _, _)
DivDigits(r, d, j) ==
    IF j = 0 THEN [q |-> << >>, r |-> r]
    ELSE LET hi == DivBits(r, d, 13, 0)
             lo == DivDigits(hi.r, d, j - 1)
         IN  [q |-> Append(lo.q, hi.q), r |-> lo.r]

\* a / b for b # 0: the mantissas are aligned to the same length, the
\* quotient is developed to 65 binary places and rounded
FloatDivQuot(neg, e, lead, quot) ==
    FloatRound(neg, MagTrim(Append(quot.q, IF lead THEN 1 ELSE 0)), e,
               quot.r # [h |-> 0, l |-> 0])

FloatDivLead(neg, num, den, e, lead) ==
    FloatDivQuot(neg, e, lead,
                 DivDigits(MagPair(IF lead THEN MagSub(num, den) ELSE num), MagPair(den), 5))

FloatDivMag(neg, num, den, e) == FloatDivLead(neg, num, den, e, ~MagLess(num, den))

FloatDivAt(a, b, la, lb) ==
    FloatDivMag(a.neg # b.neg,
                MagShl(a.m, IF la < lb THEN lb - la ELSE 0),
                MagShl(b.m, IF lb < la THEN la - lb ELSE 0),
                a.e - b.e + la - lb - 65)

FloatDiv(a, b) ==
    IF a.m = << >> THEN a ELSE FloatDivAt(a, b, MagBits(a.m), MagBits(b.m))

\* a < b
FloatLess(a, b) ==
    LET lo == IF a.e < b.e THEN a.e ELSE b.e
        ma == MagShl(a.m, a.e - lo)
        mb == MagShl(b.m, b.e - lo)
    IN  IF a.neg # b.neg THEN a.neg
        ELSE IF a.neg THEN MagLess(mb, ma)
        ELSE MagLess(ma, mb)

\* the float a decimal literal stands for: n / 10^j
Float(n, j) == FloatDiv(FloatInt(n), FloatInt(10^j))

\* the builtin sum over x[0], ..., x[n - 1]
RECURSIVE FloatSum(_, _)
FloatSum(x, n) == IF n = 0 THEN FloatInt(0) ELSE FloatAdd(FloatSum(x, n - 1), x[n - 1])

\* x ** 2 and x ** 3 of the sample functions call pow of the C library
\* (glibc 2.36 on x86-64 with fused multiply-add), which is not the double
\* nearest to the exact power on about one argument in a thousand.  What
\* follows is that routine, operation by operation: log(x) as a double and
\* a tail from a table of 128 intervals, y * log(x) as a double and a tail,
\* and exp of that from a table of 128 powers of 2^(1/128).  It covers
\* y * log(x) below 512 in absolute value, where the result is neither too
\* large nor too small for a double.

\* a * b + c, rounded once
FloatFma(a, b, c) ==
    IF c.m = << >> THEN FloatMul(a, b)
    ELSE FloatAdd([neg |-> a.neg # b.neg, m |-> MagMul(a.m, b.m), e |-> a.e + b.e], c)

\* the exponent of a # 0: a is at least 2^FloatExp(a) and below twice that
FloatExp(a) == a.e + MagBits(a.m) - 1

\* a * 2^s
FloatScale(a, s) == IF a.m = << >> THEN a ELSE [a EXCEPT !.e = @ + s]

\* the integer an integral float is
FloatToInt(a) == IF a.neg THEN -MagInt(MagShl(a.m, a.e)) ELSE MagInt(MagShl(a.m, a.e))

\* the constants of the routine: log(2) in two parts, the coefficients
\* A[0], ..., A[6] of log1p(r) - r, 128 / log(2), the number whose addition
\* rounds to an integer, -log(2) / 128 in two parts and the coefficients
\* C2, ..., C5 of exp(r) - 1 - r
PowConstants ==
    [ Ln2hi |-> [neg |-> FALSE, m |-> <<8007, 766, 4466, 5>>, e |-> -42],
      Ln2lo |-> [neg |-> FALSE, m |-> <<5747, 2531, 3422, 990>>, e |-> -93],
      A0 |-> [neg |-> TRUE, m |-> <<1>>, e |-> -1],
      A1 |-> [neg |-> TRUE, m |-> <<2731, 5461, 2730, 341>>, e |-> -48],
      A2 |-> [neg |-> FALSE, m |-> <<3, 0, 0, 4096>>, e |-> -52],
      A3 |-> [neg |-> FALSE, m |-> <<2727, 1381, 4915, 6553>>, e |-> -52],
      A4 |-> [neg |-> TRUE, m |-> <<4669, 5286, 2730, 5461>>, e |-> -52],
      A5 |-> [neg |-> TRUE, m |-> <<1513, 6722, 5862, 1170, 1>>, e |-> -52],
      A6 |-> [neg |-> FALSE, m |-> <<8131, 6449, 2786, 0, 1>>, e |-> -52],
      MinusOne |-> [neg |-> TRUE, m |-> <<1>>, e |-> 0],
      InvLn2N |-> [neg |-> FALSE, m |-> <<383, 5294, 2284, 5909>>, e |-> -44],
      Shift |-> [neg |-> FALSE, m |-> <<3>>, e |-> 51],
      NegLn2hiN |-> [neg |-> TRUE, m |-> <<8061, 6411, 709>>, e |-> -43],
      NegLn2loN |-> [neg |-> TRUE, m |-> <<7581, 4728, 4951, 7415>>, e |-> -98],
      C2 |-> [neg |-> FALSE, m |-> <<7613, 8191, 8191, 8191, 1>>, e |-> -54],
      C3 |-> [neg |-> FALSE, m |-> <<5391, 2730, 5461, 2730>>, e |-> -53],
      C4 |-> [neg |-> FALSE, m |-> <<2961, 6329, 5491, 2730, 1>>, e |-> -57],
      C5 |-> [neg |-> FALSE, m |-> <<4119, 7462, 1113, 546, 1>>, e |-> -59] ]

\* invc, logc and logctail of the 128 intervals: invc is near 1 / c and
\* logc + logctail near log(c) for the centre c of the interval
PowLogData ==
    << << [neg |-> FALSE, m |-> <<181>>, e |-> -7],
          [neg |-> TRUE, m |-> <<5945, 754, 4452, 5>>, e |-> -43],
          [neg |-> FALSE, m |-> <<3757, 643, 6674, 106>>, e |-> -93] >>,
       << [neg |-> FALSE, m |-> <<45>>, e |-> -5],
          [neg |-> TRUE, m |-> <<2817, 7615, 3725, 5>>, e |-> -43],
          [neg |-> TRUE, m |-> <<1977, 5688, 2577, 458>>, e |-> -93] >>,
       << [neg |-> FALSE, m |-> <<179>>, e |-> -7],
          [neg |-> TRUE, m |-> <<2219, 5911, 2995, 5>>, e |-> -43],
          [neg |-> TRUE, m |-> <<4205, 3506, 2357, 1733, 1>>, e |-> -97] >>,
       << [neg |-> FALSE, m |-> <<89>>, e |-> -6],
          [neg |-> TRUE, m |-> <<1471, 3463, 2261, 5>>, e |-> -43],
          [neg |-> TRUE, m |-> <<2005, 5507, 6439, 3337, 1>>, e |-> -101] >>,
       << [neg |-> FALSE, m |-> <<177>>, e |-> -7],
          [neg |-> TRUE, m |-> <<3823, 8085, 1522, 5>>, e |-> -43],
          [neg |-> TRUE, m |-> <<2551, 1226, 5843, 321>>, e |-> -94] >>,
       << [neg |-> FALSE, m |-> <<11>>, e |-> -3],
          [neg |-> TRUE, m |-> <<4323, 752, 2243, 1>>, e |-> -41],
          [neg |-> FALSE, m |-> <<307, 4249, 756, 2540>>, e |-> -96] >>,
       << [neg |-> FALSE, m |-> <<175>>, e |-> -7],
          [neg |-> TRUE, m |-> <<4309, 4230, 33, 5>>, e |-> -43],
          [neg |-> FALSE, m |-> <<1437, 5640, 7805, 7234>>, e |-> -101] >>,
       << [neg |-> FALSE, m |-> <<87>>, e |-> -6],
          [neg |-> TRUE, m |-> <<3369, 3157, 7474, 4>>, e |-> -43],
          [neg |-> FALSE, m |-> <<3235, 404, 909, 267>>, e |-> -92] >>,
       << [neg |-> FALSE, m |-> <<173>>, e |-> -7],
          [neg |-> TRUE, m |-> <<5425, 7641, 2467>>, e |-> -39],
          [neg |-> FALSE, m |-> <<73, 4886, 2490, 5465>>, e |-> -96] >>,
       << [neg |-> FALSE, m |-> <<43>>, e |-> -5],
          [neg |-> TRUE, m |-> <<5897, 6318, 1489, 1>>, e |-> -41],
          [neg |-> FALSE, m |-> <<1403, 6583, 6388, 1438>>, e |-> -94] >>,
       << [neg |-> FALSE, m |-> <<171>>, e |-> -7],
          [neg |-> TRUE, m |-> <<7121, 6675, 5194, 4>>, e |-> -43],
          [neg |-> FALSE, m |-> <<4159, 5757, 1325, 2964, 1>>, e |-> -98] >>,
       << [neg |-> FALSE, m |-> <<171>>, e |-> -7],
          [neg |-> TRUE, m |-> <<7121, 6675, 5194, 4>>, e |-> -43],
          [neg |-> FALSE, m |-> <<4159, 5757, 1325, 2964, 1>>, e |-> -98] >>,
       << [neg |-> FALSE, m |-> <<85>>, e |-> -6],
          [neg |-> TRUE, m |-> <<6639, 507, 4426, 4>>, e |-> -43],
          [neg |-> TRUE, m |-> <<3387, 335, 1157, 5722>>, e |-> -97] >>,
       << [neg |-> FALSE, m |-> <<169>>, e |-> -7],
          [neg |-> TRUE, m |-> <<3379, 6337, 3652, 4>>, e |-> -43],
          [neg |-> TRUE, m |-> <<5377, 4558, 7110, 4055>>, e |-> -96] >>,
       << [neg |-> FALSE, m |-> <<21>>, e |-> -4],
          [neg |-> TRUE, m |-> <<5493, 7339, 2874, 4>>, e |-> -43],
          [neg |-> FALSE, m |-> <<2703, 6593, 7960, 995>>, e |-> -94] >>,
       << [neg |-> FALSE, m |-> <<167>>, e |-> -7],
          [neg |-> TRUE, m |-> <<5577, 3065, 2092, 4>>, e |-> -43],
          [neg |-> TRUE, m |-> <<3379, 5141, 6303, 5800>>, e |-> -96] >>,
       << [neg |-> FALSE, m |-> <<83>>, e |-> -6],
          [neg |-> TRUE, m |-> <<1849, 4721, 652, 2>>, e |-> -42],
          [neg |-> TRUE, m |-> <<391, 7120, 7631, 7275>>, e |-> -98] >>,
       << [neg |-> FALSE, m |-> <<165>>, e |-> -7],
          [neg |-> TRUE, m |-> <<2893, 4810, 256, 2>>, e |-> -42],
          [neg |-> TRUE, m |-> <<3455, 6049, 3623, 109, 1>>, e |-> -100] >>,
       << [neg |-> FALSE, m |-> <<165>>, e |-> -7],
          [neg |-> TRUE, m |-> <<2893, 4810, 256, 2>>, e |-> -42],
          [neg |-> TRUE, m |-> <<3455, 6049, 3623, 109, 1>>, e |-> -100] >>,
       << [neg |-> FALSE, m |-> <<41>>, e |-> -5],
          [neg |-> TRUE, m |-> <<5497, 781, 8121>>, e |-> -41],
          [neg |-> FALSE, m |-> <<7303, 7369, 2730, 6830, 1>>, e |-> -99] >>,
       << [neg |-> FALSE, m |-> <<163>>, e |-> -7],
          [neg |-> TRUE, m |-> <<7907, 2930, 7649, 1>>, e |-> -42],
          [neg |-> FALSE, m |-> <<3017, 6413, 2937, 3475>>, e |-> -95] >>,
       << [neg |-> FALSE, m |-> <<81>>, e |-> -6],
          [neg |-> TRUE, m |-> <<687, 951, 6300, 3>>, e |-> -43],
          [neg |-> TRUE, m |-> <<8177, 2591, 7485, 741>>, e |-> -94] >>,
       << [neg |-> FALSE, m |-> <<161>>, e |-> -7],
          [neg |-> TRUE, m |-> <<3391, 1069, 7516>>, e |-> -41],
          [neg |-> FALSE, m |-> <<2075, 7763, 1134, 885, 1>>, e |-> -97] >>,
       << [neg |-> FALSE, m |-> <<5>>, e |-> -2],
          [neg |-> TRUE, m |-> <<7381, 7665, 6431, 1>>, e |-> -42],
          [neg |-> FALSE, m |-> <<269, 4415, 5366, 3004>>, e |-> -95] >>,
       << [neg |-> FALSE, m |-> <<5>>, e |-> -2],
          [neg |-> TRUE, m |-> <<7381, 7665, 6431, 1>>, e |-> -42],
          [neg |-> FALSE, m |-> <<269, 4415, 5366, 3004>>, e |-> -95] >>,
       << [neg |-> FALSE, m |-> <<159>>, e |-> -7],
          [neg |-> TRUE, m |-> <<729, 826, 3850, 3>>, e |-> -43],
          [neg |-> FALSE, m |-> <<6031, 3165, 3084, 4765, 1>>, e |-> -98] >>,
       << [neg |-> FALSE, m |-> <<79>>, e |-> -6],
          [neg |-> TRUE, m |-> <<6659, 6441, 6899>>, e |-> -41],
          [neg |-> FALSE, m |-> <<2099, 7990, 3175, 6734>>, e |-> -103] >>,
       << [neg |-> FALSE, m |-> <<157>>, e |-> -7],
          [neg |-> TRUE, m |-> <<7723, 7695, 2190, 3>>, e |-> -43],
          [neg |-> TRUE, m |-> <<245, 4379, 3227, 5516>>, e |-> -96] >>,
       << [neg |-> FALSE, m |-> <<157>>, e |-> -7],
          [neg |-> TRUE, m |-> <<7723, 7695, 2190, 3>>, e |-> -43],
          [neg |-> TRUE, m |-> <<245, 4379, 3227, 5516>>, e |-> -96] >>,
       << [neg |-> FALSE, m |-> <<39>>, e |-> -5],
          [neg |-> TRUE, m |-> <<3909, 3406, 1353, 3>>, e |-> -43],
          [neg |-> TRUE, m |-> <<5347, 1550, 5697, 5539, 1>>, e |-> -97] >>,
       << [neg |-> FALSE, m |-> <<155>>, e |-> -7],
          [neg |-> TRUE, m |-> <<4621, 4146, 510, 3>>, e |-> -43],
          [neg |-> FALSE, m |-> <<6665, 7903, 4063, 6011, 1>>, e |-> -97] >>,
       << [neg |-> FALSE, m |-> <<77>>, e |-> -6],
          [neg |-> TRUE, m |-> <<4231, 576, 3927, 1>>, e |-> -42],
          [neg |-> FALSE, m |-> <<2379, 4691, 7299, 1782>>, e |-> -94] >>,
       << [neg |-> FALSE, m |-> <<77>>, e |-> -6],
          [neg |-> TRUE, m |-> <<4231, 576, 3927, 1>>, e |-> -42],
          [neg |-> FALSE, m |-> <<2379, 4691, 7299, 1782>>, e |-> -94] >>,
       << [neg |-> FALSE, m |-> <<153>>, e |-> -7],
          [neg |-> TRUE, m |-> <<4509, 2035, 7000, 2>>, e |-> -43],
          [neg |-> TRUE, m |-> <<4403, 3787, 3412, 4324>>, e |-> -97] >>,
       << [neg |-> FALSE, m |-> <<19>>, e |-> -4],
          [neg |-> TRUE, m |-> <<2681, 6200, 6140, 2>>, e |-> -43],
          [neg |-> TRUE, m |-> <<4153, 6274, 4327, 7484, 1>>, e |-> -98] >>,
       << [neg |-> FALSE, m |-> <<19>>, e |-> -4],
          [neg |-> TRUE, m |-> <<2681, 6200, 6140, 2>>, e |-> -43],
          [neg |-> TRUE, m |-> <<4153, 6274, 4327, 7484, 1>>, e |-> -98] >>,
       << [neg |-> FALSE, m |-> <<151>>, e |-> -7],
          [neg |-> TRUE, m |-> <<6683, 4849, 5275, 2>>, e |-> -43],
          [neg |-> TRUE, m |-> <<7055, 58, 740, 445, 1>>, e |-> -97] >>,
       << [neg |-> FALSE, m |-> <<75>>, e |-> -6],
          [neg |-> TRUE, m |-> <<6551, 4790, 2598>>, e |-> -40],
          [neg |-> FALSE, m |-> <<7695, 618, 3094, 2950>>, e |-> -96] >>,
       << [neg |-> FALSE, m |-> <<75>>, e |-> -6],
          [neg |-> TRUE, m |-> <<6551, 4790, 2598>>, e |-> -40],
          [neg |-> FALSE, m |-> <<7695, 618, 3094, 2950>>, e |-> -96] >>,
       << [neg |-> FALSE, m |-> <<149>>, e |-> -7],
          [neg |-> TRUE, m |-> <<489, 7696, 3527, 2>>, e |-> -43],
          [neg |-> FALSE, m |-> <<2589, 5277, 4297, 4472>>, e |-> -99] >>,
       << [neg |-> FALSE, m |-> <<37>>, e |-> -5],
          [neg |-> TRUE, m |-> <<511, 2428, 2645, 2>>, e |-> -43],
          [neg |-> TRUE, m |-> <<6273, 6001, 2432, 1315>>, e |-> -94] >>,
       << [neg |-> FALSE, m |-> <<147>>, e |-> -7],
          [neg |-> TRUE, m |-> <<2427, 2741, 878, 1>>, e |-> -42],
          [neg |-> TRUE, m |-> <<4555, 70, 5251, 7808>>, e |-> -96] >>,
       << [neg |-> FALSE, m |-> <<147>>, e |-> -7],
          [neg |-> TRUE, m |-> <<2427, 2741, 878, 1>>, e |-> -42],
          [neg |-> TRUE, m |-> <<4555, 70, 5251, 7808>>, e |-> -96] >>,
       << [neg |-> FALSE, m |-> <<73>>, e |-> -6],
          [neg |-> TRUE, m |-> <<3337, 7998, 861, 2>>, e |-> -43],
          [neg |-> FALSE, m |-> <<5885, 4560, 6504, 3380>>, e |-> -97] >>,
       << [neg |-> FALSE, m |-> <<73>>, e |-> -6],
          [neg |-> TRUE, m |-> <<3337, 7998, 861, 2>>, e |-> -43],
          [neg |-> FALSE, m |-> <<5885, 4560, 6504, 3380>>, e |-> -97] >>,
       << [neg |-> FALSE, m |-> <<145>>, e |-> -7],
          [neg |-> TRUE, m |-> <<3807, 1100, 8153, 1>>, e |-> -43],
          [neg |-> TRUE, m |-> <<6649, 4748, 2699, 5493>>, e |-> -96] >>,
       << [neg |-> FALSE, m |-> <<9>>, e |-> -3],
          [neg |-> TRUE, m |-> <<3627, 6203, 1929>>, e |-> -40],
          [neg |-> FALSE, m |-> <<15, 5600, 706, 3354>>, e |-> -95] >>,
       << [neg |-> FALSE, m |-> <<9>>, e |-> -3],
          [neg |-> TRUE, m |-> <<3627, 6203, 1929>>, e |-> -40],
          [neg |-> FALSE, m |-> <<15, 5600, 706, 3354>>, e |-> -95] >>,
       << [neg |-> FALSE, m |-> <<143>>, e |-> -7],
          [neg |-> TRUE, m |-> <<7535, 2705, 7262>>, e |-> -42],
          [neg |-> TRUE, m |-> <<7939, 382, 2795, 7436>>, e |-> -97] >>,
       << [neg |-> FALSE, m |-> <<71>>, e |-> -6],
          [neg |-> TRUE, m |-> <<4695, 6990, 5412, 1>>, e |-> -43],
          [neg |-> FALSE, m |-> <<5465, 2139, 2479, 1358>>, e |-> -94] >>,
       << [neg |-> FALSE, m |-> <<71>>, e |-> -6],
          [neg |-> TRUE, m |-> <<4695, 6990, 5412, 1>>, e |-> -43],
          [neg |-> FALSE, m |-> <<5465, 2139, 2479, 1358>>, e |-> -94] >>,
       << [neg |-> FALSE, m |-> <<141>>, e |-> -7],
          [neg |-> TRUE, m |-> <<4493, 4469, 4486, 1>>, e |-> -43],
          [neg |-> FALSE, m |-> <<2765, 3375, 330, 1247>>, e |-> -95] >>,
       << [neg |-> FALSE, m |-> <<141>>, e |-> -7],
          [neg |-> TRUE, m |-> <<4493, 4469, 4486, 1>>, e |-> -43],
          [neg |-> FALSE, m |-> <<2765, 3375, 330, 1247>>, e |-> -95] >>,
       << [neg |-> FALSE, m |-> <<35>>, e |-> -5],
          [neg |-> TRUE, m |-> <<5931, 5282, 3553, 1>>, e |-> -43],
          [neg |-> TRUE, m |-> <<6637, 1229, 1785, 5783>>, e |-> -96] >>,
       << [neg |-> FALSE, m |-> <<139>>, e |-> -7],
          [neg |-> TRUE, m |-> <<6193, 463, 2614, 1>>, e |-> -43],
          [neg |-> FALSE, m |-> <<7767, 3634, 5848, 7684, 1>>, e |-> -98] >>,
       << [neg |-> FALSE, m |-> <<139>>, e |-> -7],
          [neg |-> TRUE, m |-> <<6193, 463, 2614, 1>>, e |-> -43],
          [neg |-> FALSE, m |-> <<7767, 3634, 5848, 7684, 1>>, e |-> -98] >>,
       << [neg |-> FALSE, m |-> <<69>>, e |-> -6],
          [neg |-> TRUE, m |-> <<4319, 5605, 1667, 1>>, e |-> -43],
          [neg |-> FALSE, m |-> <<5087, 1992, 5811, 6333, 1>>, e |-> -97] >>,
       << [neg |-> FALSE, m |-> <<69>>, e |-> -6],
          [neg |-> TRUE, m |-> <<4319, 5605, 1667, 1>>, e |-> -43],
          [neg |-> FALSE, m |-> <<5087, 1992, 5811, 6333, 1>>, e |-> -97] >>,
       << [neg |-> FALSE, m |-> <<137>>, e |-> -7],
          [neg |-> TRUE, m |-> <<7495, 4974, 2226>>, e |-> -41],
          [neg |-> FALSE, m |-> <<777, 5245, 6045, 2296, 1>>, e |-> -98] >>,
       << [neg |-> FALSE, m |-> <<17>>, e |-> -4],
          [neg |-> TRUE, m |-> <<35, 780, 3973>>, e |-> -42],
          [neg |-> FALSE, m |-> <<3729, 6580, 1952, 6835, 1>>, e |-> -97] >>,
       << [neg |-> FALSE, m |-> <<17>>, e |-> -4],
          [neg |-> TRUE, m |-> <<35, 780, 3973>>, e |-> -42],
          [neg |-> FALSE, m |-> <<3729, 6580, 1952, 6835, 1>>, e |-> -97] >>,
       << [neg |-> FALSE, m |-> <<135>>, e |-> -7],
          [neg |-> TRUE, m |-> <<563, 3543, 3489>>, e |-> -42],
          [neg |-> FALSE, m |-> <<7187, 2988, 1966, 3649>>, e |-> -96] >>,
       << [neg |-> FALSE, m |-> <<135>>, e |-> -7],
          [neg |-> TRUE, m |-> <<563, 3543, 3489>>, e |-> -42],
          [neg |-> FALSE, m |-> <<7187, 2988, 1966, 3649>>, e |-> -96] >>,
       << [neg |-> FALSE, m |-> <<67>>, e |-> -6],
          [neg |-> TRUE, m |-> <<6347, 2846, 6004>>, e |-> -43],
          [neg |-> TRUE, m |-> <<4343, 5066, 2246, 7420>>, e |-> -96] >>,
       << [neg |-> FALSE, m |-> <<67>>, e |-> -6],
          [neg |-> TRUE, m |-> <<6347, 2846, 6004>>, e |-> -43],
          [neg |-> TRUE, m |-> <<4343, 5066, 2246, 7420>>, e |-> -96] >>,
       << [neg |-> FALSE, m |-> <<133>>, e |-> -7],
          [neg |-> TRUE, m |-> <<2043, 4343, 5022>>, e |-> -43],
          [neg |-> FALSE, m |-> <<8021, 5275, 5886, 5378>>, e |-> -99] >>,
       << [neg |-> FALSE, m |-> <<133>>, e |-> -7],
          [neg |-> TRUE, m |-> <<2043, 4343, 5022>>, e |-> -43],
          [neg |-> FALSE, m |-> <<8021, 5275, 5886, 5378>>, e |-> -99] >>,
       << [neg |-> FALSE, m |-> <<33>>, e |-> -5],
          [neg |-> TRUE, m |-> <<463, 667, 252>>, e |-> -39],
          [neg |-> TRUE, m |-> <<633, 6396, 615, 3264>>, e |-> -95] >>,
       << [neg |-> FALSE, m |-> <<33>>, e |-> -5],
          [neg |-> TRUE, m |-> <<463, 667, 252>>, e |-> -39],
          [neg |-> TRUE, m |-> <<633, 6396, 615, 3264>>, e |-> -95] >>,
       << [neg |-> FALSE, m |-> <<131>>, e |-> -7],
          [neg |-> TRUE, m |-> <<4011, 4528, 3036>>, e |-> -43],
          [neg |-> TRUE, m |-> <<1593, 8149, 5412, 4378, 1>>, e |-> -97] >>,
       << [neg |-> FALSE, m |-> <<65>>, e |-> -6],
          [neg |-> TRUE, m |-> <<3135, 337, 508>>, e |-> -41],
          [neg |-> TRUE, m |-> <<2471, 3495, 1999, 3983>>, e |-> -100] >>,
       << [neg |-> FALSE, m |-> <<65>>, e |-> -6],
          [neg |-> TRUE, m |-> <<3135, 337, 508>>, e |-> -41],
          [neg |-> TRUE, m |-> <<2471, 3495, 1999, 3983>>, e |-> -100] >>,
       << [neg |-> FALSE, m |-> <<129>>, e |-> -7],
          [neg |-> TRUE, m |-> <<1713, 4117, 127>>, e |-> -40],
          [neg |-> TRUE, m |-> <<4153, 7092, 1008, 3313>>, e |-> -96] >>,
       << [neg |-> FALSE, m |-> <<129>>, e |-> -7],
          [neg |-> TRUE, m |-> <<1713, 4117, 127>>, e |-> -40],
          [neg |-> TRUE, m |-> <<4153, 7092, 1008, 3313>>, e |-> -96] >>,
       << [neg |-> FALSE, m |-> <<1>>, e |-> 0],
          [neg |-> FALSE, m |-> << >>, e |-> 0],
          [neg |-> FALSE, m |-> << >>, e |-> 0] >>,
       << [neg |-> FALSE, m |-> <<1>>, e |-> 0],
          [neg |-> FALSE, m |-> << >>, e |-> 0],
          [neg |-> FALSE, m |-> << >>, e |-> 0] >>,
       << [neg |-> FALSE, m |-> <<127>>, e |-> -7],
          [neg |-> FALSE, m |-> <<5513, 171, 1028>>, e |-> -43],
          [neg |-> TRUE, m |-> <<1405, 6557, 7004, 1073>>, e |-> -95] >>,
       << [neg |-> FALSE, m |-> <<63>>, e |-> -6],
          [neg |-> FALSE, m |-> <<4391, 1381, 2064>>, e |-> -43],
          [neg |-> TRUE, m |-> <<7145, 7051, 2912, 5084>>, e |-> -96] >>,
       << [neg |-> FALSE, m |-> <<125>>, e |-> -7],
          [neg |-> FALSE, m |-> <<2249, 2345, 1554>>, e |-> -42],
          [neg |-> TRUE, m |-> <<781, 1204, 2979, 3408>>, e |-> -95] >>,
       << [neg |-> FALSE, m |-> <<31>>, e |-> -5],
          [neg |-> FALSE, m |-> <<1949, 2993, 4161>>, e |-> -43],
          [neg |-> FALSE, m |-> <<5971, 1934, 4119, 547, 1>>, e |-> -99] >>,
       << [neg |-> FALSE, m |-> <<123>>, e |-> -7],
          [neg |-> FALSE, m |-> <<2583, 6843, 652>>, e |-> -40],
          [neg |-> TRUE, m |-> <<8101, 5565, 5019, 1797>>, e |-> -94] >>,
       << [neg |-> FALSE, m |-> <<61>>, e |-> -6],
          [neg |-> FALSE, m |-> <<4735, 5442, 6292>>, e |-> -43],
          [neg |-> TRUE, m |-> <<1661, 721, 1396, 4851, 1>>, e |-> -98] >>,
       << [neg |-> FALSE, m |-> <<121>>, e |-> -7],
          [neg |-> FALSE, m |-> <<6007, 3705, 7371>>, e |-> -43],
          [neg |-> TRUE, m |-> <<2055, 7873, 7313, 5329, 1>>, e |-> -98] >>,
       << [neg |-> FALSE, m |-> <<241>>, e |-> -8],
          [neg |-> FALSE, m |-> <<27, 1592, 7914>>, e |-> -43],
          [neg |-> TRUE, m |-> <<7035, 7753, 3987, 7202, 1>>, e |-> -99] >>,
       << [neg |-> FALSE, m |-> <<239>>, e |-> -8],
          [neg |-> FALSE, m |-> <<2611, 3828, 814, 1>>, e |-> -43],
          [neg |-> TRUE, m |-> <<7835, 4204, 5973, 2660, 1>>, e |-> -97] >>,
       << [neg |-> FALSE, m |-> <<237>>, e |-> -8],
          [neg |-> FALSE, m |-> <<7823, 7529, 1915, 1>>, e |-> -43],
          [neg |-> FALSE, m |-> <<3799, 3802, 6057, 6544, 1>>, e |-> -97] >>,
       << [neg |-> FALSE, m |-> <<235>>, e |-> -8],
          [neg |-> FALSE, m |-> <<3261, 5779, 3026, 1>>, e |-> -43],
          [neg |-> TRUE, m |-> <<3727, 4468, 199, 7273>>, e |-> -96] >>,
       << [neg |-> FALSE, m |-> <<117>>, e |-> -7],
          [neg |-> FALSE, m |-> <<2987, 6753, 5888>>, e |-> -42],
          [neg |-> FALSE, m |-> <<5785, 1655, 4533, 7198>>, e |-> -100] >>,
       << [neg |-> FALSE, m |-> <<29>>, e |-> -5],
          [neg |-> FALSE, m |-> <<5477, 3019, 6451>>, e |-> -42],
          [neg |-> FALSE, m |-> <<1005, 2805, 2951, 4881>>, e |-> -96] >>,
       << [neg |-> FALSE, m |-> <<115>>, e |-> -7],
          [neg |-> FALSE, m |-> <<3435, 4643, 5845, 1>>, e |-> -43],
          [neg |-> TRUE, m |-> <<2277, 8123, 10, 1825, 1>>, e |-> -98] >>,
       << [neg |-> FALSE, m |-> <<229>>, e |-> -8],
          [neg |-> FALSE, m |-> <<1777, 2816, 7304>>, e |-> -42],
          [neg |-> FALSE, m |-> <<3283, 4821, 5233, 3213, 1>>, e |-> -97] >>,
       << [neg |-> FALSE, m |-> <<227>>, e |-> -8],
          [neg |-> FALSE, m |-> <<6225, 3680, 7566, 1>>, e |-> -43],
          [neg |-> TRUE, m |-> <<4655, 3065, 209, 476>>, e |-> -92] >>,
       << [neg |-> FALSE, m |-> <<113>>, e |-> -7],
          [neg |-> FALSE, m |-> <<3807, 1102, 8145, 1>>, e |-> -43],
          [neg |-> TRUE, m |-> <<2813, 7432, 5523, 2665, 1>>, e |-> -97] >>,
       << [neg |-> FALSE, m |-> <<7>>, e |-> -3],
          [neg |-> FALSE, m |-> <<4415, 928, 559, 1>>, e |-> -42],
          [neg |-> FALSE, m |-> <<1017, 6324, 3865, 4591>>, e |-> -96] >>,
       << [neg |-> FALSE, m |-> <<223>>, e |-> -8],
          [neg |-> FALSE, m |-> <<575, 5567, 1704, 2>>, e |-> -43],
          [neg |-> FALSE, m |-> <<1613, 2161, 6372, 3667>>, e |-> -95] >>,
       << [neg |-> FALSE, m |-> <<221>>, e |-> -8],
          [neg |-> FALSE, m |-> <<6413, 5648, 2408>>, e |-> -40],
          [neg |-> FALSE, m |-> <<5281, 7181, 6962, 1850, 1>>, e |-> -99] >>,
       << [neg |-> FALSE, m |-> <<55>>, e |-> -6],
          [neg |-> FALSE, m |-> <<345, 7768, 3479, 2>>, e |-> -43],
          [neg |-> FALSE, m |-> <<4745, 6747, 2568, 3167, 1>>, e |-> -103] >>,
       << [neg |-> FALSE, m |-> <<109>>, e |-> -7],
          [neg |-> FALSE, m |-> <<4923, 7873, 4676, 2>>, e |-> -43],
          [neg |-> FALSE, m |-> <<5839, 5373, 7114, 1376>>, e |-> -94] >>,
       << [neg |-> FALSE, m |-> <<217>>, e |-> -8],
          [neg |-> FALSE, m |-> <<2587, 4850, 5279, 2>>, e |-> -43],
          [neg |-> FALSE, m |-> <<7623, 2891, 6713, 3175, 1>>, e |-> -97] >>,
       << [neg |-> FALSE, m |-> <<215>>, e |-> -8],
          [neg |-> FALSE, m |-> <<2241, 1887, 6493, 2>>, e |-> -43],
          [neg |-> FALSE, m |-> <<1487, 3132, 7257, 1651>>, e |-> -95] >>,
       << [neg |-> FALSE, m |-> <<107>>, e |-> -7],
          [neg |-> FALSE, m |-> <<5975, 2373, 7104, 2>>, e |-> -43],
          [neg |-> TRUE, m |-> <<481, 3297, 889, 2595, 1>>, e |-> -97] >>,
       << [neg |-> FALSE, m |-> <<213>>, e |-> -8],
          [neg |-> FALSE, m |-> <<5189, 1730, 7718, 2>>, e |-> -43],
          [neg |-> TRUE, m |-> <<773, 1162, 1052, 6348, 1>>, e |-> -98] >>,
       << [neg |-> FALSE, m |-> <<211>>, e |-> -8],
          [neg |-> FALSE, m |-> <<2873, 5503, 1583>>, e |-> -39],
          [neg |-> TRUE, m |-> <<3281, 5961, 5418, 3706, 1>>, e |-> -99] >>,
       << [neg |-> FALSE, m |-> <<105>>, e |-> -7],
          [neg |-> FALSE, m |-> <<7415, 4822, 1622>>, e |-> -39],
          [neg |-> FALSE, m |-> <<8047, 1287, 2582, 4068, 1>>, e |-> -99] >>,
       << [neg |-> FALSE, m |-> <<13>>, e |-> -4],
          [neg |-> FALSE, m |-> <<1111, 6991, 5415, 1>>, e |-> -42],
          [neg |-> TRUE, m |-> <<361, 689, 4308, 4324, 1>>, e |-> -97] >>,
       << [neg |-> FALSE, m |-> <<207>>, e |-> -8],
          [neg |-> FALSE, m |-> <<5565, 3115, 3271, 3>>, e |-> -43],
          [neg |-> TRUE, m |-> <<4309, 6835, 4521, 7221>>, e |-> -98] >>,
       << [neg |-> FALSE, m |-> <<103>>, e |-> -7],
          [neg |-> FALSE, m |-> <<479, 462, 6049, 1>>, e |-> -42],
          [neg |-> TRUE, m |-> <<2395, 1360, 6283, 7499>>, e |-> -96] >>,
       << [neg |-> FALSE, m |-> <<205>>, e |-> -8],
          [neg |-> FALSE, m |-> <<3841, 7651, 4543, 3>>, e |-> -43],
          [neg |-> TRUE, m |-> <<5609, 5720, 3672, 4588>>, e |-> -99] >>,
       << [neg |-> FALSE, m |-> <<203>>, e |-> -8],
          [neg |-> FALSE, m |-> <<3401, 7896, 5828, 3>>, e |-> -43],
          [neg |-> TRUE, m |-> <<4149, 6317, 2749, 5630, 1>>, e |-> -97] >>,
       << [neg |-> FALSE, m |-> <<101>>, e |-> -7],
          [neg |-> FALSE, m |-> <<7793, 1919, 6476, 3>>, e |-> -43],
          [neg |-> FALSE, m |-> <<8003, 4128, 2205, 578>>, e |-> -99] >>,
       << [neg |-> FALSE, m |-> <<201>>, e |-> -8],
          [neg |-> FALSE, m |-> <<1245, 3439, 1981>>, e |-> -39],
          [neg |-> TRUE, m |-> <<3601, 3548, 1369, 5186, 1>>, e |-> -103] >>,
       << [neg |-> FALSE, m |-> <<25>>, e |-> -5],
          [neg |-> FALSE, m |-> <<2875, 3638, 7780, 3>>, e |-> -43],
          [neg |-> FALSE, m |-> <<3571, 1286, 4019, 889>>, e |-> -94] >>,
       << [neg |-> FALSE, m |-> <<99>>, e |-> -7],
          [neg |-> FALSE, m |-> <<2475, 6240, 905, 4>>, e |-> -43],
          [neg |-> FALSE, m |-> <<3729, 5994, 5829, 4409, 1>>, e |-> -100] >>,
       << [neg |-> FALSE, m |-> <<197>>, e |-> -8],
          [neg |-> FALSE, m |-> <<6923, 2905, 392, 1>>, e |-> -41],
          [neg |-> FALSE, m |-> <<2793, 4583, 709, 3633, 1>>, e |-> -97] >>,
       << [neg |-> FALSE, m |-> <<49>>, e |-> -6],
          [neg |-> FALSE, m |-> <<1277, 3714, 2236, 4>>, e |-> -43],
          [neg |-> TRUE, m |-> <<7175, 1867, 4326, 3600>>, e |-> -95] >>,
       << [neg |-> FALSE, m |-> <<195>>, e |-> -8],
          [neg |-> FALSE, m |-> <<5535, 7371, 2906, 4>>, e |-> -43],
          [neg |-> FALSE, m |-> <<5761, 7464, 4989, 5941, 1>>, e |-> -97] >>,
       << [neg |-> FALSE, m |-> <<97>>, e |-> -7],
          [neg |-> FALSE, m |-> <<2893, 6499, 3580, 4>>, e |-> -43],
          [neg |-> FALSE, m |-> <<7607, 2621, 6996, 6477, 1>>, e |-> -97] >>,
       << [neg |-> FALSE, m |-> <<193>>, e |-> -8],
          [neg |-> FALSE, m |-> <<471, 1389, 4258, 4>>, e |-> -43],
          [neg |-> FALSE, m |-> <<7541, 2330, 7127, 6791>>, e |-> -98] >>,
       << [neg |-> FALSE, m |-> <<191>>, e |-> -8],
          [neg |-> FALSE, m |-> <<3529, 6206, 2811, 2>>, e |-> -42],
          [neg |-> FALSE, m |-> <<317, 5280, 4004, 3406>>, e |-> -95] >>,
       << [neg |-> FALSE, m |-> <<95>>, e |-> -7],
          [neg |-> FALSE, m |-> <<3739, 7288, 1577, 1>>, e |-> -41],
          [neg |-> TRUE, m |-> <<1943, 4897, 5078, 1592>>, e |-> -94] >>,
       << [neg |-> FALSE, m |-> <<189>>, e |-> -8],
          [neg |-> FALSE, m |-> <<3041, 5051, 3501, 2>>, e |-> -42],
          [neg |-> FALSE, m |-> <<3833, 4337, 5741, 1115>>, e |-> -95] >>,
       << [neg |-> FALSE, m |-> <<47>>, e |-> -6],
          [neg |-> FALSE, m |-> <<4915, 2363, 3849, 2>>, e |-> -42],
          [neg |-> FALSE, m |-> <<3927, 3085, 5451, 3101>>, e |-> -96] >>,
       << [neg |-> FALSE, m |-> <<187>>, e |-> -8],
          [neg |-> FALSE, m |-> <<6845, 5155, 205, 5>>, e |-> -43],
          [neg |-> FALSE, m |-> <<157, 1159, 3515, 4552, 1>>, e |-> -99] >>,
       << [neg |-> FALSE, m |-> <<93>>, e |-> -7],
          [neg |-> FALSE, m |-> <<3641, 3522, 908, 5>>, e |-> -43],
          [neg |-> TRUE, m |-> <<5749, 2878, 4994, 7759, 1>>, e |-> -97] >>,
       << [neg |-> FALSE, m |-> <<185>>, e |-> -8],
          [neg |-> FALSE, m |-> <<371, 4175, 4903, 2>>, e |-> -42],
          [neg |-> TRUE, m |-> <<5673, 5653, 2193, 3856>>, e |-> -95] >>,
       << [neg |-> FALSE, m |-> <<23>>, e |-> -5],
          [neg |-> FALSE, m |-> <<6597, 2945, 2629, 1>>, e |-> -41],
          [neg |-> FALSE, m |-> <<1881, 2854, 7200, 7548, 1>>, e |-> -97] >>,
       << [neg |-> FALSE, m |-> <<183>>, e |-> -8],
          [neg |-> FALSE, m |-> <<7309, 7081, 5615, 2>>, e |-> -42],
          [neg |-> FALSE, m |-> <<239, 4842, 7035, 8027, 1>>, e |-> -98] >>,
       << [neg |-> FALSE, m |-> <<91>>, e |-> -7],
          [neg |-> FALSE, m |-> <<6859, 3959, 2987, 1>>, e |-> -41],
          [neg |-> TRUE, m |-> <<6519, 4424, 4768, 3333>>, e |-> -97] >> >>

\* for j = 0, ..., 127 the double nearest 2^(j/128) and, first, the rest
\* of 2^(j/128) relative to it
ExpData ==
    << << [neg |-> FALSE, m |-> << >>, e |-> 0],
          [neg |-> FALSE, m |-> <<1>>, e |-> 0] >>,
       << [neg |-> FALSE, m |-> <<8119, 2594, 2531, 6971>>, e |-> -105],
          [neg |-> FALSE, m |-> <<4917, 4057, 3946, 44, 1>>, e |-> -52] >>,
       << [neg |-> TRUE, m |-> <<7261, 1734, 1255, 704, 1>>, e |-> -108],
          [neg |-> FALSE, m |-> <<97, 5052, 1679, 89, 1>>, e |-> -52] >>,
       << [neg |-> TRUE, m |-> <<1745, 1083, 7812, 188, 1>>, e |-> -106],
          [neg |-> FALSE, m |-> <<8069, 883, 1402, 134, 1>>, e |-> -52] >>,
       << [neg |-> FALSE, m |-> <<5651, 2879, 5261, 6564, 1>>, e |-> -107],
          [neg |-> FALSE, m |-> <<349, 1579, 6925, 2092>>, e |-> -50] >>,
       << [neg |-> TRUE, m |-> <<1917, 4070, 4100, 7118>>, e |-> -106],
          [neg |-> FALSE, m |-> <<7023, 1911, 3429, 4208>>, e |-> -51] >>,
       << [neg |-> FALSE, m |-> <<2145, 3894, 5016, 494, 1>>, e |-> -109],
          [neg |-> FALSE, m |-> <<4985, 6261, 6696, 1057>>, e |-> -49] >>,
       << [neg |-> FALSE, m |-> <<5017, 6558, 6422, 327, 1>>, e |-> -106],
          [neg |-> FALSE, m |-> <<4995, 5687, 4018, 316, 1>>, e |-> -52] >>,
       << [neg |-> FALSE, m |-> <<7021, 3099, 2455, 3893, 1>>, e |-> -106],
          [neg |-> FALSE, m |-> <<2319, 1996, 5659, 362, 1>>, e |-> -52] >>,
       << [neg |-> FALSE, m |-> <<7167, 1531, 4521, 3930>>, e |-> -105],
          [neg |-> FALSE, m |-> <<2039, 7058, 1162, 409, 1>>, e |-> -52] >>,
       << [neg |-> FALSE, m |-> <<7377, 380, 3932, 7548, 1>>, e |-> -112],
          [neg |-> FALSE, m |-> <<2257, 2895, 7558, 4323>>, e |-> -51] >>,
       << [neg |-> TRUE, m |-> <<3595, 3203, 3362, 5126, 1>>, e |-> -109],
          [neg |-> FALSE, m |-> <<4891, 8182, 6571, 502, 1>>, e |-> -52] >>,
       << [neg |-> TRUE, m |-> <<7815, 2238, 2629, 5462>>, e |-> -105],
          [neg |-> FALSE, m |-> <<6993, 146, 116, 550, 1>>, e |-> -52] >>,
       << [neg |-> TRUE, m |-> <<2645, 631, 7139, 257, 1>>, e |-> -110],
          [neg |-> FALSE, m |-> <<3187, 216, 3036, 2197>>, e |-> -50] >>,
       << [neg |-> TRUE, m |-> <<6667, 1879, 1143, 4553>>, e |-> -105],
          [neg |-> FALSE, m |-> <<2415, 2986, 1333, 276>>, e |-> -47] >>,
       << [neg |-> FALSE, m |-> <<5551, 2786, 6394, 423, 1>>, e |-> -107],
          [neg |-> FALSE, m |-> <<3665, 1324, 1586, 693, 1>>, e |-> -52] >>,
       << [neg |-> TRUE, m |-> <<4713, 2725, 6319, 1030>>, e |-> -104],
          [neg |-> FALSE, m |-> <<4475, 1002, 3599, 741, 1>>, e |-> -52] >>,
       << [neg |-> TRUE, m |-> <<4669, 3825, 7189, 7743, 1>>, e |-> -107],
          [neg |-> FALSE, m |-> <<1781, 562, 7975, 4490>>, e |-> -51] >>,
       << [neg |-> FALSE, m |-> <<5055, 6298, 783, 5907, 1>>, e |-> -107],
          [neg |-> FALSE, m |-> <<2933, 7038, 5882, 838, 1>>, e |-> -52] >>,
       << [neg |-> TRUE, m |-> <<5523, 6215, 5006, 5849>>, e |-> -105],
          [neg |-> FALSE, m |-> <<5941, 2056, 7688, 2269>>, e |-> -50] >>,
       << [neg |-> FALSE, m |-> <<4475, 3982, 6638, 430>>, e |-> -101],
          [neg |-> FALSE, m |-> <<7381, 1442, 4326, 4564>>, e |-> -51] >>,
       << [neg |-> TRUE, m |-> <<6301, 7217, 178, 8143, 1>>, e |-> -107],
          [neg |-> FALSE, m |-> <<6429, 6118, 5128, 986, 1>>, e |-> -52] >>,
       << [neg |-> FALSE, m |-> <<909, 1334, 4177, 5342, 1>>, e |-> -107],
          [neg |-> FALSE, m |-> <<1643, 394, 1905, 4614>>, e |-> -51] >>,
       << [neg |-> FALSE, m |-> <<1149, 1824, 364, 244, 1>>, e |-> -107],
          [neg |-> FALSE, m |-> <<3659, 1527, 2354, 4639>>, e |-> -51] >>,
       << [neg |-> FALSE, m |-> <<2597, 1873, 4062, 2887>>, e |-> -104],
          [neg |-> FALSE, m |-> <<3143, 3701, 979, 1166>>, e |-> -49] >>,
       << [neg |-> FALSE, m |-> <<2173, 5026, 1596, 3772, 1>>, e |-> -107],
          [neg |-> FALSE, m |-> <<1599, 7573, 5011, 1187, 1>>, e |-> -52] >>,
       << [neg |-> FALSE, m |-> <<5113, 127, 1395, 4167>>, e |-> -106],
          [neg |-> FALSE, m |-> <<7389, 3859, 4441, 1238, 1>>, e |-> -52] >>,
       << [neg |-> TRUE, m |-> <<1071, 7620, 3943, 5816>>, e |-> -105],
          [neg |-> FALSE, m |-> <<897, 4011, 6136, 1289, 1>>, e |-> -52] >>,
       << [neg |-> FALSE, m |-> <<2865, 2125, 6235, 1519, 1>>, e |-> -107],
          [neg |-> FALSE, m |-> <<7905, 2302, 1917, 1341, 1>>, e |-> -52] >>,
       << [neg |-> TRUE, m |-> <<8189, 2494, 4963, 7457>>, e |-> -111],
          [neg |-> FALSE, m |-> <<3481, 2157, 511, 599>>, e |-> -48] >>,
       << [neg |-> FALSE, m |-> <<685, 1048, 6183, 3483>>, e |-> -105],
          [neg |-> FALSE, m |-> <<779, 5920, 361, 1445, 1>>, e |-> -52] >>,
       << [neg |-> FALSE, m |-> <<2959, 3702, 1186, 7209, 1>>, e |-> -109],
          [neg |-> FALSE, m |-> <<6059, 1272, 5621, 4844>>, e |-> -51] >>,
       << [neg |-> FALSE, m |-> <<5595, 5826, 3753, 4941>>, e |-> -106],
          [neg |-> FALSE, m |-> <<5909, 4493, 8066, 1549, 1>>, e |-> -52] >>,
       << [neg |-> FALSE, m |-> <<7443, 1368, 30, 2849>>, e |-> -105],
          [neg |-> FALSE, m |-> <<6193, 614, 7231, 1602, 1>>, e |-> -52] >>,
       << [neg |-> FALSE, m |-> <<7205, 5967, 1835, 8157>>, e |-> -106],
          [neg |-> FALSE, m |-> <<5887, 4896, 556, 1656, 1>>, e |-> -52] >>,
       << [neg |-> TRUE, m |-> <<5825, 5916, 6147, 2897>>, e |-> -105],
          [neg |-> FALSE, m |-> <<8177, 7316, 4439, 1709, 1>>, e |-> -52] >>,
       << [neg |-> TRUE, m |-> <<2573, 3147, 5998, 1170>>, e |-> -103],
          [neg |-> FALSE, m |-> <<2507, 6613, 2509, 1763, 1>>, e |-> -52] >>,
       << [neg |-> TRUE, m |-> <<5831, 3396, 7939, 6407>>, e |-> -105],
          [neg |-> FALSE, m |-> <<3123, 5143, 5581, 5004>>, e |-> -51] >>,
       << [neg |-> TRUE, m |-> <<7017, 6736, 7431, 4561>>, e |-> -107],
          [neg |-> FALSE, m |-> <<8183, 1836, 5837, 1871, 1>>, e |-> -52] >>,
       << [neg |-> TRUE, m |-> <<6933, 7792, 1644, 4658, 1>>, e |-> -106],
          [neg |-> FALSE, m |-> <<2277, 6301, 2928, 1926, 1>>, e |-> -52] >>,
       << [neg |-> FALSE, m |-> <<3181, 6482, 4649, 2878, 1>>, e |-> -107],
          [neg |-> FALSE, m |-> <<6673, 4168, 5321, 5086>>, e |-> -51] >>,
       << [neg |-> TRUE, m |-> <<5317, 2209, 3087, 4882>>, e |-> -105],
          [neg |-> FALSE, m |-> <<7, 2393, 1104, 2557>>, e |-> -50] >>,
       << [neg |-> TRUE, m |-> <<2395, 188, 978, 4431, 1>>, e |-> -110],
          [neg |-> FALSE, m |-> <<5909, 2012, 324, 5142>>, e |-> -51] >>,
       << [neg |-> TRUE, m |-> <<6683, 6732, 1753, 6233, 1>>, e |-> -108],
          [neg |-> FALSE, m |-> <<2199, 2693, 7542, 2147, 1>>, e |-> -52] >>,
       << [neg |-> FALSE, m |-> <<3089, 1557, 7000, 1735, 1>>, e |-> -111],
          [neg |-> FALSE, m |-> <<2349, 780, 536, 2204, 1>>, e |-> -52] >>,
       << [neg |-> FALSE, m |-> <<1263, 6195, 590, 3276, 1>>, e |-> -106],
          [neg |-> FALSE, m |-> <<87, 2280, 4219, 2260, 1>>, e |-> -52] >>,
       << [neg |-> FALSE, m |-> <<889, 5384, 6262, 7577, 1>>, e |-> -109],
          [neg |-> FALSE, m |-> <<5069, 6880, 6794, 656>>, e |-> -48] >>,
       << [neg |-> FALSE, m |-> <<4387, 8071, 7736, 639>>, e |-> -102],
          [neg |-> FALSE, m |-> <<2543, 863, 1374, 5283>>, e |-> -51] >>,
       << [neg |-> FALSE, m |-> <<2811, 7613, 826, 722>>, e |-> -104],
          [neg |-> FALSE, m |-> <<2599, 2481, 5813, 2431, 1>>, e |-> -52] >>,
       << [neg |-> FALSE, m |-> <<119, 6823, 3962, 1595, 1>>, e |-> -106],
          [neg |-> FALSE, m |-> <<7437, 4078, 3238, 2489, 1>>, e |-> -52] >>,
       << [neg |-> TRUE, m |-> <<4551, 454, 1664, 8084>>, e |-> -106],
          [neg |-> FALSE, m |-> <<3239, 5353, 3229, 2547, 1>>, e |-> -52] >>,
       << [neg |-> TRUE, m |-> <<841, 1181, 4919, 4029, 1>>, e |-> -107],
          [neg |-> FALSE, m |-> <<4897, 2877, 6996, 5398>>, e |-> -51] >>,
       << [neg |-> TRUE, m |-> <<6239, 2169, 4527, 4541, 1>>, e |-> -108],
          [neg |-> FALSE, m |-> <<1985, 6773, 1386, 5428>>, e |-> -51] >>,
       << [neg |-> TRUE, m |-> <<3707, 4589, 2269, 5650>>, e |-> -106],
          [neg |-> FALSE, m |-> <<4623, 4844, 2354, 2723, 1>>, e |-> -52] >>,
       << [neg |-> FALSE, m |-> <<3015, 1015, 163, 4917>>, e |-> -105],
          [neg |-> FALSE, m |-> <<5101, 6868, 2278, 5487>>, e |-> -51] >>,
       << [neg |-> FALSE, m |-> <<6917, 7252, 3531, 5937, 1>>, e |-> -108],
          [neg |-> FALSE, m |-> <<2045, 1214, 1205, 2842, 1>>, e |-> -52] >>,
       << [neg |-> FALSE, m |-> <<5129, 4322, 6264, 199, 1>>, e |-> -106],
          [neg |-> FALSE, m |-> <<5161, 2626, 503, 2902, 1>>, e |-> -52] >>,
       << [neg |-> FALSE, m |-> <<885, 103, 4266, 5319>>, e |-> -111],
          [neg |-> FALSE, m |-> <<1719, 4810, 2466, 2962, 1>>, e |-> -52] >>,
       << [neg |-> FALSE, m |-> <<53, 6950, 6538, 2149, 1>>, e |-> -106],
          [neg |-> FALSE, m |-> <<1065, 5549, 7032, 1401>>, e |-> -49] >>,
       << [neg |-> TRUE, m |-> <<5791, 3275, 4760, 6600, 1>>, e |-> -107],
          [neg |-> FALSE, m |-> <<7177, 2998, 6254, 3083, 1>>, e |-> -52] >>,
       << [neg |-> TRUE, m |-> <<2485, 7151, 7721, 1804>>, e |-> -104],
          [neg |-> FALSE, m |-> <<5509, 466, 8108, 3144, 1>>, e |-> -52] >>,
       << [neg |-> TRUE, m |-> <<5335, 1199, 3857, 5203>>, e |-> -106],
          [neg |-> FALSE, m |-> <<1561, 3379, 1676, 356>>, e |-> -47] >>,
       << [neg |-> TRUE, m |-> <<2827, 6230, 5867, 1267>>, e |-> -103],
          [neg |-> FALSE, m |-> <<549, 4777, 3616, 3268, 1>>, e |-> -52] >>,
       << [neg |-> FALSE, m |-> <<1625, 252, 2728, 2952>>, e |-> -108],
          [neg |-> FALSE, m |-> <<2419, 613, 5493, 3330, 1>>, e |-> -52] >>,
       << [neg |-> TRUE, m |-> <<1093, 8030, 8061, 1260>>, e |-> -103],
          [neg |-> FALSE, m |-> <<7117, 5113, 1945, 3393, 1>>, e |-> -52] >>,
       << [neg |-> TRUE, m |-> <<7361, 7378, 5552, 6674>>, e |-> -108],
          [neg |-> FALSE, m |-> <<6847, 2142, 1181, 3456, 1>>, e |-> -52] >>,
       << [neg |-> TRUE, m |-> <<5367, 438, 7671, 4967>>, e |-> -108],
          [neg |-> FALSE, m |-> <<6703, 808, 3215, 3519, 1>>, e |-> -52] >>,
       << [neg |-> TRUE, m |-> <<2129, 1796, 3925, 440, 1>>, e |-> -107],
          [neg |-> FALSE, m |-> <<1313, 4771, 6111, 2943>>, e |-> -50] >>,
       << [neg |-> TRUE, m |-> <<7887, 4817, 6431, 4158, 1>>, e |-> -108],
          [neg |-> FALSE, m |-> <<6109, 4568, 5982, 2959>>, e |-> -50] >>,
       << [neg |-> TRUE, m |-> <<6107, 69, 6443, 733>>, e |-> -103],
          [neg |-> FALSE, m |-> <<93, 4427, 6564, 2975>>, e |-> -50] >>,
       << [neg |-> TRUE, m |-> <<4933, 6487, 1603, 5657>>, e |-> -106],
          [neg |-> FALSE, m |-> <<1993, 4627, 6869, 3775, 1>>, e |-> -52] >>,
       << [neg |-> FALSE, m |-> <<5331, 4174, 4823, 313, 1>>, e |-> -106],
          [neg |-> FALSE, m |-> <<7487, 7922, 6739, 3840, 1>>, e |-> -52] >>,
       << [neg |-> TRUE, m |-> <<1309, 2669, 5934, 5733, 1>>, e |-> -108],
          [neg |-> FALSE, m |-> <<391, 8024, 1308, 3906, 1>>, e |-> -52] >>,
       << [neg |-> FALSE, m |-> <<107, 830, 8021, 2521, 1>>, e |-> -106],
          [neg |-> FALSE, m |-> <<153, 1219, 7584, 6081>>, e |-> -51] >>,
       << [neg |-> FALSE, m |-> <<3157, 7859, 6250, 3031, 1>>, e |-> -109],
          [neg |-> FALSE, m |-> <<1841, 6973, 7782, 6114>>, e |-> -51] >>,
       << [neg |-> TRUE, m |-> <<1953, 7887, 6309, 6305>>, e |-> -106],
          [neg |-> FALSE, m |-> <<3337, 4344, 1258, 6148>>, e |-> -51] >>,
       << [neg |-> TRUE, m |-> <<3533, 630, 7023, 2484>>, e |-> -104],
          [neg |-> FALSE, m |-> <<3603, 2662, 614, 4171, 1>>, e |-> -52] >>,
       << [neg |-> TRUE, m |-> <<8079, 2151, 4231, 4190>>, e |-> -106],
          [neg |-> FALSE, m |-> <<1965, 4382, 1681, 4238, 1>>, e |-> -52] >>,
       << [neg |-> TRUE, m |-> <<2999, 457, 2587, 5332>>, e |-> -105],
          [neg |-> FALSE, m |-> <<4845, 6692, 5734, 4305, 1>>, e |-> -52] >>,
       << [neg |-> FALSE, m |-> <<1861, 7532, 5548, 16>>, e |-> -97],
          [neg |-> FALSE, m |-> <<1689, 3155, 4598, 4373, 1>>, e |-> -52] >>,
       << [neg |-> FALSE, m |-> <<6829, 993, 4860, 3803>>, e |-> -105],
          [neg |-> FALSE, m |-> <<219, 4437, 6480, 4441, 1>>, e |-> -52] >>,
       << [neg |-> TRUE, m |-> <<2047, 1583, 6183, 2924, 1>>, e |-> -109],
          [neg |-> FALSE, m |-> <<4387, 3434, 4897, 3175>>, e |-> -50] >>,
       << [neg |-> FALSE, m |-> <<6097, 5094, 2101, 3579>>, e |-> -106],
          [neg |-> FALSE, m |-> <<7067, 1109, 5587, 6385>>, e |-> -51] >>,
       << [neg |-> TRUE, m |-> <<7555, 6385, 2025, 1554, 1>>, e |-> -106],
          [neg |-> FALSE, m |-> <<8163, 3655, 2913, 6420>>, e |-> -51] >>,
       << [neg |-> TRUE, m |-> <<7721, 7008, 3618, 6995, 1>>, e |-> -110],
          [neg |-> FALSE, m |-> <<1509, 1646, 3564, 4718, 1>>, e |-> -52] >>,
       << [neg |-> TRUE, m |-> <<6489, 1157, 7775, 6215, 1>>, e |-> -109],
          [neg |-> FALSE, m |-> <<4623, 7746, 4402, 4788, 1>>, e |-> -52] >>,
       << [neg |-> TRUE, m |-> <<7381, 3027, 2148, 4675>>, e |-> -105],
          [neg |-> FALSE, m |-> <<1253, 4079, 5642, 815>>, e |-> -48] >>,
       << [neg |-> TRUE, m |-> <<3659, 6964, 6965, 2964, 1>>, e |-> -107],
          [neg |-> FALSE, m |-> <<989, 808, 7726, 6560>>, e |-> -51] >>,
       << [neg |-> FALSE, m |-> <<3623, 7310, 7946, 863, 1>>, e |-> -108],
          [neg |-> FALSE, m |-> <<7945, 337, 4678, 824>>, e |-> -48] >>,
       << [neg |-> FALSE, m |-> <<5051, 2131, 3448, 7076, 1>>, e |-> -109],
          [neg |-> FALSE, m |-> <<803, 3865, 6342, 5072, 1>>, e |-> -52] >>,
       << [neg |-> TRUE, m |-> <<611, 4881, 264, 3978, 1>>, e |-> -107],
          [neg |-> FALSE, m |-> <<1381, 6895, 6558, 5144, 1>>, e |-> -52] >>,
       << [neg |-> FALSE, m |-> <<4565, 7953, 440, 5689, 1>>, e |-> -107],
          [neg |-> FALSE, m |-> <<3379, 593, 1787, 5217, 1>>, e |-> -52] >>,
       << [neg |-> TRUE, m |-> <<6933, 7653, 5236, 887, 1>>, e |-> -106],
          [neg |-> FALSE, m |-> <<1373, 4593, 236, 5290, 1>>, e |-> -52] >>,
       << [neg |-> FALSE, m |-> <<6377, 5048, 1587, 4300>>, e |-> -105],
          [neg |-> FALSE, m |-> <<5739, 4912, 3312, 1694>>, e |-> -49] >>,
       << [neg |-> FALSE, m |-> <<6835, 5018, 283, 2259, 1>>, e |-> -107],
          [neg |-> FALSE, m |-> <<7615, 3023, 6869, 5436, 1>>, e |-> -52] >>,
       << [neg |-> TRUE, m |-> <<1901, 3869, 7385, 2415>>, e |-> -105],
          [neg |-> FALSE, m |-> <<6589, 8015, 3447, 6851>>, e |-> -51] >>,
       << [neg |-> FALSE, m |-> <<4999, 5721, 7652, 6196, 1>>, e |-> -107],
          [neg |-> FALSE, m |-> <<5037, 2774, 2022, 5585, 1>>, e |-> -52] >>,
       << [neg |-> TRUE, m |-> <<3325, 2887, 4585, 4219>>, e |-> -105],
          [neg |-> FALSE, m |-> <<6963, 1590, 229, 6926>>, e |-> -51] >>,
       << [neg |-> TRUE, m |-> <<5981, 7026, 6954, 5571>>, e |-> -109],
          [neg |-> FALSE, m |-> <<5627, 632, 2222, 5735, 1>>, e |-> -52] >>,
       << [neg |-> TRUE, m |-> <<7129, 1972, 1038, 133>>, e |-> -100],
          [neg |-> FALSE, m |-> <<3229, 6037, 3665, 7001>>, e |-> -51] >>,
       << [neg |-> TRUE, m |-> <<1229, 4443, 3907, 3179>>, e |-> -107],
          [neg |-> FALSE, m |-> <<7751, 6106, 7612, 5886, 1>>, e |-> -52] >>,
       << [neg |-> TRUE, m |-> <<2613, 6852, 6298, 989, 1>>, e |-> -106],
          [neg |-> FALSE, m |-> <<805, 644, 5638, 7077>>, e |-> -51] >>,
       << [neg |-> FALSE, m |-> <<7629, 4862, 5570, 2559, 1>>, e |-> -108],
          [neg |-> FALSE, m |-> <<233, 303, 978, 7116>>, e |-> -51] >>,
       << [neg |-> TRUE, m |-> <<1579, 5413, 8127, 2270>>, e |-> -104],
          [neg |-> FALSE, m |-> <<7689, 7864, 4246, 6117, 1>>, e |-> -52] >>,
       << [neg |-> FALSE, m |-> <<3251, 1400, 2956, 1757, 1>>, e |-> -108],
          [neg |-> FALSE, m |-> <<5287, 6922, 6589, 3596>>, e |-> -50] >>,
       << [neg |-> FALSE, m |-> <<8037, 6463, 4901, 3953>>, e |-> -105],
          [neg |-> FALSE, m |-> <<2109, 8191, 5483, 7232>>, e |-> -51] >>,
       << [neg |-> FALSE, m |-> <<5739, 530, 2301, 2672>>, e |-> -105],
          [neg |-> FALSE, m |-> <<4427, 4798, 7243, 6351, 1>>, e |-> -52] >>,
       << [neg |-> FALSE, m |-> <<6759, 624, 3022, 1947, 1>>, e |-> -109],
          [neg |-> FALSE, m |-> <<1973, 55, 7013, 6430, 1>>, e |-> -52] >>,
       << [neg |-> FALSE, m |-> <<813, 3218, 6499, 1498>>, e |-> -106],
          [neg |-> FALSE, m |-> <<4201, 1916, 2103, 6510, 1>>, e |-> -52] >>,
       << [neg |-> TRUE, m |-> <<6889, 3890, 784, 4234>>, e |-> -106],
          [neg |-> FALSE, m |-> <<509, 5495, 362, 7391>>, e |-> -51] >>,
       << [neg |-> TRUE, m |-> <<6767, 8191, 5967, 8026, 1>>, e |-> -107],
          [neg |-> FALSE, m |-> <<607, 5135, 4820, 3715>>, e |-> -50] >>,
       << [neg |-> TRUE, m |-> <<2377, 941, 2958, 27, 1>>, e |-> -106],
          [neg |-> FALSE, m |-> <<1273, 54, 4321, 7471>>, e |-> -51] >>,
       << [neg |-> FALSE, m |-> <<1959, 4584, 361, 2375, 1>>, e |-> -108],
          [neg |-> FALSE, m |-> <<1159, 2013, 1591, 6832, 1>>, e |-> -52] >>,
       << [neg |-> TRUE, m |-> <<527, 513, 1928, 1315, 1>>, e |-> -107],
          [neg |-> FALSE, m |-> <<4211, 5833, 1816, 1888>>, e |-> -49] >>,
       << [neg |-> FALSE, m |-> <<1195, 2947, 1293, 3885>>, e |-> -105],
          [neg |-> FALSE, m |-> <<4741, 7897, 6528, 6995, 1>>, e |-> -52] >>,
       << [neg |-> FALSE, m |-> <<2891, 11, 5739, 2164, 1>>, e |-> -107],
          [neg |-> FALSE, m |-> <<3491, 7360, 1603, 477>>, e |-> -47] >>,
       << [neg |-> TRUE, m |-> <<7711, 7585, 2113, 1450, 1>>, e |-> -107],
          [neg |-> FALSE, m |-> <<7007, 7132, 1484, 7161, 1>>, e |-> -52] >>,
       << [neg |-> TRUE, m |-> <<3529, 6712, 3662, 4693, 1>>, e |-> -107],
          [neg |-> FALSE, m |-> <<297, 1965, 4485, 7244, 1>>, e |-> -52] >>,
       << [neg |-> FALSE, m |-> <<2259, 468, 280, 2412, 1>>, e |-> -108],
          [neg |-> FALSE, m |-> <<8187, 7724, 1500, 7760>>, e |-> -51] >>,
       << [neg |-> FALSE, m |-> <<4721, 3307, 6932, 1931, 1>>, e |-> -107],
          [neg |-> FALSE, m |-> <<3203, 7738, 5246, 7412, 1>>, e |-> -52] >>,
       << [neg |-> TRUE, m |-> <<6431, 2025, 7242, 1022>>, e |-> -103],
          [neg |-> FALSE, m |-> <<2157, 2706, 5620, 7844>>, e |-> -51] >>,
       << [neg |-> TRUE, m |-> <<5245, 4379, 1592, 7005, 1>>, e |-> -107],
          [neg |-> FALSE, m |-> <<2033, 3187, 4619, 7582, 1>>, e |-> -52] >>,
       << [neg |-> FALSE, m |-> <<1025, 426, 7650, 1968>>, e |-> -104],
          [neg |-> FALSE, m |-> <<6695, 4874, 1787, 7668, 1>>, e |-> -52] >>,
       << [neg |-> FALSE, m |-> <<5529, 3751, 4760, 5163>>, e |-> -106],
          [neg |-> FALSE, m |-> <<6807, 7005, 2765, 7754, 1>>, e |-> -52] >>,
       << [neg |-> FALSE, m |-> <<759, 1862, 5414, 6756>>, e |-> -106],
          [neg |-> FALSE, m |-> <<6421, 2925, 4214, 250>>, e |-> -46] >>,
       << [neg |-> TRUE, m |-> <<1005, 479, 3769, 7279, 1>>, e |-> -107],
          [neg |-> FALSE, m |-> <<3973, 6969, 8154, 4029>>, e |-> -50] >>,
       << [neg |-> FALSE, m |-> <<3485, 3214, 3795, 3858, 1>>, e |-> -108],
          [neg |-> FALSE, m |-> <<4635, 414, 7692, 2025>>, e |-> -49] >>,
       << [neg |-> FALSE, m |-> <<3209, 2822, 4176, 1547, 1>>, e |-> -110],
          [neg |-> FALSE, m |-> <<4593, 7291, 4234, 8103, 1>>, e |-> -52] >> >>

\* the first 20 binary digits of the mantissa of x > 0 after the leading 1
MantissaTop(x) ==
    MagInt(IF MagBits(x.m) >= 21 THEN MagShr(x.m, MagBits(x.m) - 21)
           ELSE MagShl(x.m, 21 - MagBits(x.m))) - 1048576

\* log_inline: x = 2^k * z with z in [0x1.69555p-1, 0x1.69555p0), kd =
\* (double) k, and the table entry of the interval of z, which the 7 binary
\* digits of tmp = ix - OFF above digit 45 number
LogTab(x) ==
    LET kx == IF MantissaTop(x) >= 431445 THEN FloatExp(x) + 1 ELSE FloatExp(x)
        tab == PowLogData[((MantissaTop(x) - 431445) % 1048576) \div 8192 + 1]
    IN  [z |-> FloatScale(x, -kx), kd |-> FloatInt(kx),
         invc |-> tab[1], logc |-> tab[2], logctail |-> tab[3]]

\* exp_inline: the table entry ki % 128 and scale = 2^(ki / 128)
ExpTab(ki) ==
    LET tab == ExpData[(ki % 128) + 1]
    IN  [exptail |-> tab[1], scale |-> FloatScale(tab[2], (ki - (ki % 128)) \div 128)]

\* the routine as the sequence of its floating-point operations: each
\* writes its first name; fma is a * b + c and fms is a * b - c, rounded
\* once.  log(x) is loghi + logtail, y * log(x) is ehi + elo, kd is
\* ehi * InvLn2N rounded to an integer by adding Shift, r the rest of
\* ehi + elo, and the result scale + scale * tmp
PowCode ==
    << <<"log_tab">>,
       <<"fma", "t1", "kd", "Ln2hi", "logc">>,
       <<"fma", "lo1", "kd", "Ln2lo", "logctail">>,
       <<"fma", "r", "z", "invc", "MinusOne">>,
       <<"mul", "ar", "r", "A0">>,
       <<"fma", "p12", "r", "A2", "A1">>,
       <<"fma", "p34", "r", "A4", "A3">>,
       <<"add", "t2", "t1", "r">>,
       <<"mul", "ar2", "r", "ar">>,
       <<"sub", "d", "t1", "t2">>,
       <<"mul", "ar3", "r", "ar2">>,
       <<"fms", "lo3", "ar", "r", "ar2">>,
       <<"add", "lo2", "d", "r">>,
       <<"fma", "p56", "r", "A6", "A5">>,
       <<"add", "hi", "t2", "ar2">>,
       <<"sub", "d", "t2", "hi">>,
       <<"fma", "p36", "p56", "ar2", "p34">>,
       <<"add", "lo4", "d", "ar2">>,
       <<"fma", "p", "ar2", "p36", "p12">>,
       <<"add", "lo", "lo1", "lo2">>,
       <<"add", "lo", "lo", "lo3">>,
       <<"add", "lo", "lo", "lo4">>,
       <<"fma", "lo", "ar3", "p", "lo">>,
       <<"add", "loghi", "hi", "lo">>,
       <<"sub", "d", "hi", "loghi">>,
       <<"add", "logtail", "d", "lo">>,
       <<"mul", "ehi", "y", "loghi">>,
       <<"fms", "elo", "loghi", "y", "ehi">>,
       <<"fma", "elo", "y", "logtail", "elo">>,
       <<"tiny">>,
       <<"fma", "kd", "ehi", "InvLn2N", "Shift">>,
       <<"sub", "kd", "kd", "Shift">>,
       <<"exp_tab">>,
       <<"fma", "r", "kd", "NegLn2hiN", "ehi">>,
       <<"fma", "r", "kd", "NegLn2loN", "r">>,
       <<"add", "r", "elo", "r">>,
       <<"fma", "c23", "r", "C3", "C2">>,
       <<"add", "tr", "r", "exptail">>,
       <<"mul", "r2", "r", "r">>,
       <<"fma", "c45", "r", "C5", "C4">>,
       <<"fma", "tmp", "c23", "r2", "tr">>,
       <<"mul", "r2", "r2", "r2">>,
       <<"fma", "tmp", "c45", "r2", "tmp">>,
       <<"fma", "result", "tmp", "scale", "scale">> >>

\* the values after the operation ins; nothing changes once the result is
\* there, and exp_inline returns 1 for y * log(x) below 2^-54 in absolute
\* value
PowStep(regs, ins) ==
    IF "result" \in DOMAIN regs THEN regs
    ELSE IF ins[1] = "log_tab" THEN LogTab(regs["x"]) @@ regs
    ELSE IF ins[1] = "exp_tab" THEN ExpTab(FloatToInt(regs["kd"])) @@ regs
    ELSE IF ins[1] = "tiny"
    THEN IF regs["ehi"].m = << >> \/ FloatExp(regs["ehi"]) < -54
         THEN ("result" :> FloatInt(1)) @@ regs
         ELSE regs
    ELSE (ins[2] :>
            IF ins[1] = "add" THEN FloatAdd(regs[ins[3]], regs[ins[4]])
            ELSE IF ins[1] = "sub" THEN FloatSub(regs[ins[3]], regs[ins[4]])
            ELSE IF ins[1] = "mul" THEN FloatMul(regs[ins[3]], regs[ins[4]])
            ELSE IF ins[1] = "fms"
            THEN FloatFma(regs[ins[3]], regs[ins[4]], FloatNeg(regs[ins[5]]))
            ELSE FloatFma(regs[ins[3]], regs[ins[4]], regs[ins[5]]))
         @@ regs

\* the values after the operations i, ..., j: those after the second half
\* of them, run on the values after the first half
RECURSIVE PowRun(_, _, _)
PowRun(regs, i, j) ==
    IF i = j THEN PowStep(regs, PowCode[i])
    ELSE CHOOSE out \in {PowRun(half, (i + j) \div 2 + 1, j) :
                            half \in {PowRun(regs, i, (i + j) \div 2)}} : TRUE

\* pow(x, n) for n = 2, 3: 0 for x = 0, and minus pow(-x, n) for x < 0 and
\* n = 3
FloatPow(x, n) ==
    IF x.m = << >> THEN x
    ELSE [CHOOSE out \in
              {regs["result"] :
                  regs \in {PowRun([x |-> FloatAbs(x), y |-> FloatInt(n)] @@ PowConstants,
                                   1, Len(PowCode))}} : TRUE
          EXCEPT !.neg = x.neg /\ n % 2 = 1]

\* the sample functions of the tests
FuncNames == {"f_square", "f_abs", "f_cube"}

Apply(f, x) ==
    IF f = "f_abs" THEN FloatAbs(x)
    ELSE FloatPow(x, IF f = "f_square" THEN 2 ELSE 3)

\* -a if minus, else a
FloatSigned(minus, a) == IF minus THEN FloatNeg(a) ELSE a

\* sum(f(x_i) for x_i, f in zip(x, funcs)), negated for argmax
objective_function(x, funcs, argmax) ==
    FloatSigned(argmax, FloatSum([i \in DOMAIN x |-> Apply(funcs[i], x[i])], Len1(x)))

\* sum(x) - 1
constraint_violation(x) == FloatSub(FloatSum(x, Len1(x)), FloatInt(1))

\* the default of the parameter epsilon
epsilon == Float(1, 6)

\* (f(x + epsilon) - f(x)) / epsilon, negated before the division for argmax
numerical_subgradient(f, x, argmax) ==
    FloatDiv(FloatSigned(argmax, FloatSub(Apply(f, FloatAdd(x, epsilon)), Apply(f, x))),
             epsilon)

compute_subgradient(x, funcs, argmax) ==
    [i \in DOMAIN x |-> numerical_subgradient(funcs[i], x[i], argmax)]

\* numpy.clip(x, 0, 1)
clip(x) ==
    [i \in DOMAIN x |-> IF x[i].neg THEN FloatInt(0)
                        ELSE IF FloatLess(FloatInt(1), x[i]) THEN FloatInt(1)
                        ELSE x[i]]

\* lines 203-206: subgrad = compute_subgradient(x, funcs, argmax) + lambd
\* + rho * c, added from the left, and the array x after x -= eta * subgrad
descent_step(fr, xv) ==
    LET grads == compute_subgradient(xv, fr.funcs, fr.argmax)
        penalty == FloatMul(fr.rho, fr.c)
        subgrad == [i \in DOMAIN xv |-> FloatAdd(FloatAdd(grads[i], fr.lambd), penalty)]
    IN  [i \in DOMAIN xv |-> FloatSub(xv[i], FloatMul(fr.eta, subgrad[i]))]

\* line 229: iteration > 0 and abs(history[-2]["c"]) - abs(c) < tol / 10
no_improvement(fr, c) ==
    /\ fr.iteration > 0
    /\ FloatLess(FloatSub(FloatAbs(fr.history[Len(fr.history)].c), FloatAbs(c)),
                 FloatDiv(fr.tol, FloatInt(10)))

\* lines 211-233 without the break of lines 225-226
descent_finish_no_break(fr, h, c) ==
    [heap |-> h,
     stop |-> FALSE,
     frame |-> [fr EXCEPT
        !.x = Len(h),
        !.c = c,
        !.lambd = FloatAdd(@, FloatMul(fr.rho, c)),
        !.history = Append(@, [iteration |-> fr.iteration, x |-> h[Len(h)], c |-> c,
                               objective |-> objective_function(h[Len(h)], fr.funcs,
                                                                fr.argmax)]),
        !.rho = IF no_improvement(fr, c) THEN FloatMul(@, fr.beta) ELSE @,
        !.eta = FloatMul(@, fr.gamma),
        !.iteration = @ + 1]]

\* lines 211-233 of an iteration whose clipped x is the newest array of h
\* and whose constraint violation is c: lambd, the history record, the
\* break, and the updates of rho and eta
descent_finish(fr, h, c) ==
    [heap |-> h,
     stop |-> FloatLess(FloatAbs(c), fr.tol),
     frame |-> [fr EXCEPT
        !.x = Len(h),
        !.c = c,
        !.lambd = FloatAdd(@, FloatMul(fr.rho, c)),
        !.history = Append(@, [iteration |-> fr.iteration, x |-> h[Len(h)], c |-> c,
                               objective |-> objective_function(h[Len(h)], fr.funcs,
                                                                fr.argmax)]),
        !.rho = IF ~FloatLess(FloatAbs(c), fr.tol) /\ no_improvement(fr, c)
                THEN FloatMul(@, fr.beta) ELSE @,
        !.eta = IF FloatLess(FloatAbs(c), fr.tol) THEN @ ELSE FloatMul(@, fr.gamma),
        !.iteration = @ + 1]]

\* line 208: x = numpy.clip(x, 0, 1) binds x to a new array; line 211
descent_clip(fr, h) ==
    descent_finish(fr, Append(h, clip(h[fr.x])),
                   constraint_violation(clip(h[fr.x])))

\* one iteration of the loop, lines 200-233; line 206 assigns in the array
\* x is bound to
descent_iteration(fr, h) ==
    descent_clip(fr, ndarray_setitem(h, fr.x, descent_step(fr, h[fr.x])))

RECURSIVE descent_loop(_, _)

\* after the iteration that gave r: the break of line 226, or the next
\* value of range(max_iter)
descent_next(r) ==
    IF r.stop THEN [heap |-> r.heap, frame |-> r.frame]
    ELSE descent_loop(r.frame, r.heap)

\* the rest of the iterations from the state (fr, h) on: lines 200-233 until
\* the break or the end of range(max_iter)
descent_loop(fr, h) ==
    IF fr.iteration >= fr.max_iter THEN [heap |-> h, frame |-> fr]
    ELSE descent_next(descent_iteration(fr, h))

\* line 235: return x, objective_function(x, funcs, argmax), lambd, history
descent_return(fr, h) ==
    [x |-> fr.x,
     objective |-> objective_function(h[fr.x], fr.funcs, fr.argmax),
     lambd |-> fr.lambd,
     history |-> fr.history]

\* what a keyword parameter of subgradient_descent is bound to: the entry
\* of kwargs, or the default of lines 145-151
KwArg(kwargs, key, default) == IF key \in DOMAIN kwargs THEN kwargs[key] ELSE default

\* the frame of subgradient_descent(funcs, x_0=x_0, **kwargs) at line 190
descent_call(funcs, x_0, kwargs) ==
    [funcs |-> funcs, x_0 |-> x_0,
     max_iter |-> KwArg(kwargs, "max_iter", 1000),
     tol |-> KwArg(kwargs, "tol", Float(1, 6)),
     eta_0 |-> KwArg(kwargs, "eta_0", Float(1, 2)),
     rho_0 |-> KwArg(kwargs, "rho_0", FloatInt(1)),
     beta |-> KwArg(kwargs, "beta", Float(15, 1)),
     gamma |-> KwArg(kwargs, "gamma", Float(9, 1)),
     argmax |-> KwArg(kwargs, "argmax", FALSE),
     x |-> 0, lambd |-> FloatInt(0), rho |-> FloatInt(0), eta |-> FloatInt(0),
     c |-> FloatInt(0), history |-> << >>, iteration |-> 0]

CallerX0 == 1

\* lines 190-198: x is x_0 itself, or a new array of n values 1/n
descent_enter(fr, h) ==
    LET n == Len1(fr.funcs)
        h2 == IF fr.x_0.some THEN h
              ELSE Append(h, [i \in Idx(n) |-> FloatDiv(FloatInt(1), FloatInt(n))])
        x == IF fr.x_0.some THEN CallerX0 ELSE Len(h2)
    IN  [heap |-> h2,
         frame |-> [fr EXCEPT !.x = x, !.lambd = FloatInt(0), !.rho = fr.rho_0,
                              !.eta = fr.eta_0, !.history = << >>,
                              !.c = constraint_violation(h2[x])]]

\* line 303: x / numpy.sum(x)
normalize(x) == [i \in DOMAIN x |-> FloatDiv(x[i], FloatSum(x, Len1(x)))]

\* what a worker sends back: the tuple of line 235 with a copy of the array
worker_result(left) ==
    [descent_return(left.frame, left.heap) EXCEPT !.x = left.heap[@]]

worker_run(entered) == worker_result(descent_loop(entered.frame, entered.heap))

\* one task of pool.map, lines 309-310: a worker process receives a copy of
\* (funcs, x_0, kwargs) in its own memory, runs run_single_initialization
\* on it and sends back a copy of what it returns
worker_task(funcs, x_0, kwargs) ==
    worker_run(descent_enter(descent_call(funcs, Some(x_0), kwargs), << x_0 >>))

\* the place in results of min(results, key=lambda r: r[1]): the first of
\* the results with the least objective
best_index(results) ==
    CHOOSE p \in DOMAIN results :
        /\ \A q \in DOMAIN results : ~FloatLess(results[q].objective, results[p].objective)
        /\ \A q \in 1 .. p - 1 : FloatLess(results[p].objective, results[q].objective)

\* the lists of one to MaxFuncs sample functions, no function twice; the
\* list of the tests is [f_square, f_abs, f_cube]
FuncLists ==
    {funcs \in UNION {[Idx(n) -> FuncNames] : n \in 1 .. MaxFuncs} :
        \A i, j \in DOMAIN funcs : funcs[i] = funcs[j] => i = j}

\* two arrays of n entries 0.25 and 0.5, the entries of the vector of the
\* tests: 0.25, 0.5, 0.25, ... and 0.5, 0.25, 0.5, ...
StartArrays(n) ==
    {[i \in Idx(n) |-> IF i % 2 = 0 THEN Float(25, 2) ELSE Float(5, 1)],
     [i \in Idx(n) |-> IF i % 2 = 0 THEN Float(5, 1) ELSE Float(25, 2)]}

X0Args(funcs) == {NoneVal} \cup {Some(x) : x \in StartArrays(Len1(funcs))}

\* tol is 0.01 or 0.1, eta_0 is 0.01 or 0.5
TolValues == {Float(1, 2), Float(1, 1)}

EtaValues == {Float(1, 2), Float(5, 1)}

\* the keyword arguments the wrappers are given: max_iter, tol = 0.1 and
\* eta_0 = 0.5
KwargsValues ==
    {[max_iter |-> max_iter, tol |-> Float(1, 1), eta_0 |-> Float(5, 1)] :
        max_iter \in 0 .. MaxIter}

\* a call of subgradient_descent with x_0, max_iter, tol, eta_0 and argmax
\* given, a call of run_single_initialization, or a call of
\* run_multiple_initializations_parallel
InitDescent ==
    /\ \/ /\ op = "subgradient_descent"
          /\ args = NoneVal
          /\ \E funcs \in FuncLists :
             \E x_0 \in X0Args(funcs) :
             \E max_iter \in 0 .. MaxIter :
             \E tol \in TolValues :
             \E eta_0 \in EtaValues :
             \E argmax \in BOOLEAN :
                /\ sg = descent_call(funcs, x_0, [max_iter |-> max_iter, tol |-> tol,
                                                  eta_0 |-> eta_0, argmax |-> argmax])
                /\ heap = IF x_0.some THEN << x_0.val >> ELSE << >>
       \/ /\ op = "run_single_initialization"
          /\ sg = NoneVal
          /\ \E funcs \in FuncLists :
             \E x_0 \in X0Args(funcs) :
             \E kwargs \in KwargsValues :
                /\ args = [funcs |-> funcs, x_0 |-> x_0, kwargs |-> kwargs]
                /\ heap = IF x_0.some THEN << x_0.val >> ELSE << >>
       \/ /\ op = "run_multiple_initializations_parallel"
          /\ sg = NoneVal
          /\ heap = << >>
          /\ \E funcs \in FuncLists :
             \E num_starts \in 0 .. MaxStarts :
             \E kwargs \in KwargsValues :
                args = [funcs |-> funcs, num_starts |-> num_starts, kwargs |-> kwargs,
                        initializations |-> << >>, results |-> << >>]
    /\ argG = Unbound
    /\ argVerts = NoneVal
    /\ argK = NoneVal
    /\ argV = VNone
    /\ A = Unbound
    /\ verts = argVerts
    /\ k = argK
    /\ hashmap = {}
    /\ subgraph_list = << >>
    /\ rA = Unbound
    /\ rverts = Unbound
    /\ passes = 0
    /\ ret = NoneVal
    /\ pc = "call"
    /\ outcome = "running"
    /\ argMode = AllowedDegs_IN
    /\ result = NoneVal
    /\ calls = 1
    /\ prev = NoneVal
    /\ argInPlace = FALSE

descentfixed == <<op, argG, argVerts, argK, argV, A, verts, k, hashmap, subgraph_list,
                  rA, rverts, passes, ret, argMode, calls, prev, argInPlace>>

\* lines 254-255: run_single_initialization unpacks args and calls
\* subgradient_descent(funcs, x_0=x_0, **kwargs) on the objects it was given
RunSingleCall ==
    /\ pc = "call"
    /\ op = "run_single_initialization"
    /\ sg' = descent_call(args.funcs, args.x_0, args.kwargs)
    /\ pc' = "descent"
    /\ UNCHANGED <<descentfixed, args, heap, outcome, result>>

\* the heap and the frame r become the state
DescentEntered(r) ==
    /\ heap' = r.heap
    /\ sg' = r.frame
    /\ pc' = "loop"

DescentIterated(r) ==
    /\ heap' = r.heap
    /\ sg' = r.frame
    /\ pc' = IF r.stop THEN "break" ELSE "loop"

\* lines 190-198
DescentEnter ==
    /\ \/ pc = "call" /\ op = "subgradient_descent"
       \/ pc = "descent"
    /\ DescentEntered(descent_enter(sg, heap))
    /\ UNCHANGED <<descentfixed, args, outcome, result>>

\* one iteration of for iteration in range(max_iter), lines 200-233
DescentIterate ==
    /\ pc = "loop"
    /\ sg.iteration < sg.max_iter
    /\ DescentIterated(descent_iteration(sg, heap))
    /\ UNCHANGED <<descentfixed, args, outcome, result>>

\* line 235, after the break or after the last value of range(max_iter);
\* run_single_initialization returns what the call returned
DescentReturn ==
    /\ \/ pc = "break"
       \/ pc = "loop" /\ sg.iteration >= sg.max_iter
    /\ result' = Some(descent_return(sg, heap))
    /\ outcome' = "returned"
    /\ pc' = "done"
    /\ UNCHANGED <<descentfixed, args, heap, sg>>

\* lines 299-306 of run_multiple_initializations_parallel: num_starts
\* arrays that numpy.random.rand(n) returns, each replaced by a new array
\* that sums to 1
PoolEnter ==
    /\ pc = "call"
    /\ op = "run_multiple_initializations_parallel"
    /\ \E draws \in [1 .. args.num_starts -> StartArrays(Len1(args.funcs))] :
          /\ heap' = [p \in 1 .. args.num_starts |-> normalize(draws[p])]
          /\ args' = [args EXCEPT !.initializations = [p \in 1 .. args.num_starts |-> p]]
    /\ pc' = "map"
    /\ UNCHANGED <<descentfixed, sg, outcome, result>>

\* lines 309-310: the next task of pool.map and its place in results.  The
\* workers share no memory with each other or with the caller, so the order
\* in which they run does not show; the tasks are taken in the order of args
PoolMap ==
    /\ pc = "map"
    /\ Len(args.results) < args.num_starts
    /\ args' = [args EXCEPT !.results =
                   Append(@, worker_task(args.funcs,
                                         heap[args.initializations[Len(@) + 1]],
                                         args.kwargs))]
    /\ UNCHANGED <<descentfixed, sg, heap, pc, outcome, result>>

\* lines 314-315: min raises ValueError on an empty list
PoolReturn ==
    /\ pc = "map"
    /\ Len(args.results) = args.num_starts
    /\ IF args.results = << >>
       THEN outcome' = "ValueError" /\ result' = NoneVal
       ELSE /\ outcome' = "returned"
            /\ result' = Some([best_solution |-> args.results[best_index(args.results)],
                               results |-> args.results])
    /\ pc' = "done"
    /\ UNCHANGED <<descentfixed, args, sg, heap>>

NextDescent ==
    \/ RunSingleCall
    \/ DescentEnter
    \/ DescentIterate
    \/ DescentReturn
    \/ PoolEnter
    \/ PoolMap
    \/ PoolReturn

SpecDescent == InitDescent /\ [][NextDescent]_vars

----------------------------------------------------------------------------
(* Vocabulary of the properties *)

WellFormed == dimen_type_val(argG, argVerts).ok

IterDone == op = "iterate_subgraphs" /\ pc = "done"

\* the call of iterate_subgraphs reached line 60 with its reduced state
IterReduced == IterDone /\ outcome = "TypeError"

\* the test of line 63 on the state the call holds
InEdgeRange == 1 < PySumSum(A) /\ PySumSum(A) < k.val

RowSum(M, i) == SumOver([j \in DOMAIN M[i] |-> M[i][j]], DOMAIN M[i])

ColSum(M, j) == SumOver([i \in DOMAIN M |-> M[i][j]], DOMAIN M)

Returned == {subgraph_list[p] : p \in DOMAIN subgraph_list}

ReqSet(v) == {ReqList(v)[p] : p \in DOMAIN ReqList(v)}

SeqElems(l) == {l[p] : p \in DOMAIN l}

NonzeroPos(M) == {ij \in Positions(Rows(M)) : M[ij[1]][ij[2]] # 0}

ZeroOne(M) == \A i \in DOMAIN M : \A j \in DOMAIN M[i] : M[i][j] \in {0, 1}

\* the matrices obtained from M by setting a subset of its nonzero entries to 0
SubMatrices(M) ==
    {[i \in DOMAIN M |-> [j \in DOMAIN M[i] |->
        IF <<i, j>> \in S THEN M[i][j] ELSE 0]] : S \in SUBSET NonzeroPos(M)}

\* the vertices with a nonzero row or column
Touched(H) == {i \in DOMAIN H : RowSum(H, i) # 0 \/ ColSum(H, i) # 0}

Indicator(S, n) == [i \in Idx(n) |-> IF i \in S THEN 1 ELSE 0]

\* the set of results C1 describes
ExpectedSubgraphs(M, bound, v) ==
    {prune_graph(H, Indicator(Touched(H), Rows(M))) :
        H \in {X \in SubMatrices(M) :
                 /\ \A i \in Touched(X) : RowSum(X, i) # 0 /\ ColSum(X, i) # 0
                 /\ ReqSet(v) \subseteq Touched(X)
                 /\ 1 < PySumSum(X)
                 /\ PySumSum(X) < bound}}

----------------------------------------------------------------------------
(* C1..C10 *)

\* C1 (as claimed): a call of iterate_subgraphs on a 0/1 square matrix with
\* verts omitted ends by returning a list whose elements are exactly the
\* pruned forms of the sub-matrices H of the input in which every touched
\* vertex has a nonzero row and column sum, every required vertex is
\* touched, and 1 < sum(H) < k.
C1_ReturnsExactlyTheClosedSubgraphs ==
    (IterDone /\ IsSquare(argG) /\ ~argVerts.some /\ ZeroOne(argG)) =>
        /\ outcome = "returned"
        /\ Returned = ExpectedSubgraphs(argG, k.val, argV)

\* C2: for every input and every required-vertex argument, every pair of
\* the result list has every required index in its vertexIndices; and
\* whenever the state a call holds after line 57 meets the test of line 63,
\* the pair line 64 builds from it (prune_graph) has every required index in
\* its vertexIndices.
C2_RequiredVerticesInEveryResult ==
    /\ (IterDone /\ WellFormed /\ argV.tag # "None") =>
          \A r \in Returned : ReqSet(argV) \subseteq SeqElems(r.verts)
    /\ (IterReduced /\ argV.tag # "None" /\ InEdgeRange) =>
          ReqSet(argV) \subseteq SeqElems(prune_graph(A, verts.val).verts)

\* a call with a required vertex whose reduced state meets the test of line
\* 63 and has lost a vertex
C2_Witness ==
    /\ IterReduced
    /\ argV.tag # "None"
    /\ InEdgeRange
    /\ \E i \in DOMAIN verts.val : verts.val[i] = 0

\* C3: k is the caller's bound or, when omitted, the edge count of the input
\* plus 1; every pruned matrix of the result list has an edge count E with
\* 1 < E < k; and whenever the state a call holds after line 57 meets the
\* test of line 63, the pruned matrix line 64 builds from it has an edge
\* count E with 1 < E < k.
C3_EdgeCountStrictlyBetween1AndK ==
    /\ (IterDone /\ WellFormed) =>
          /\ k.val = (IF argK.some THEN argK.val ELSE PySumSum(argG) + 1)
          /\ \A r \in Returned : 1 < PySumSum(r.A) /\ PySumSum(r.A) < k.val
    /\ (IterReduced /\ InEdgeRange) =>
          /\ 1 < PySumSum(prune_graph(A, verts.val).A)
          /\ PySumSum(prune_graph(A, verts.val).A) < k.val

\* a call with k omitted whose reduced state meets the test of line 63 with
\* the default bound, and whose pruning drops a vertex
C3_Witness ==
    /\ IterReduced
    /\ ~argK.some
    /\ InEdgeRange
    /\ \E i \in DOMAIN verts.val : verts.val[i] = 0

\* C4: in the pair returned by validate_graph_sink_source_condition no
\* active vertex has zero in-degree or zero out-degree (over the returned
\* vector and over all vertices), and applying the reducer to the returned
\* pair returns the same matrix and the same verts.
C4_ReducerOutputIsFixedPoint ==
    ret.some =>
        LET R == ret.val IN
        /\ \A i \in DOMAIN R.verts : R.verts[i] # 0 =>
              /\ in_deg(R.A, Some(R.verts))[i] # 0
              /\ out_deg(R.A, Some(R.verts))[i] # 0
              /\ in_deg(R.A, NoneVal)[i] # 0
              /\ out_deg(R.A, NoneVal)[i] # 0
        /\ validate_graph_sink_source_condition(R.A, Some(R.verts), argV)
              = [A |-> R.A, verts |-> R.verts]

\* C4 witness: a direct call with a supplied verts vector returned, after a
\* reducing activation and the one that found the fixed point, a pair that
\* lost vertices and still has active ones.
C4_Witness ==
    /\ op = "validate_graph_sink_source_condition"
    /\ pc = "done"
    /\ outcome = "returned"
    /\ argVerts.some
    /\ passes >= 2
    /\ ~ret.val.sentinel
    /\ \E i \in DOMAIN ret.val.verts : ret.val.verts[i] = 1
    /\ ret.val.A # argG

\* C5: no activation of the reducer goes on with a required vertex inactive;
\* when a required vertex is inactive the reducer returns the all-zero
\* matrix and the all-zero vector of the input's dimension; and
\* iterate_subgraphs neither returns the sentinel state nor records or
\* branches on it.
C5_LostRequiredVertexGivesSentinel ==
    /\ (pc = "reducer" /\ passes > 0) => validate_vertices(rverts, argV)
    /\ ret.some =>
          LET R == ret.val
              n == Rows(argG)
          IN  /\ (~validate_vertices(R.verts, argV) \/ R.sentinel) =>
                    /\ R.A = zeros(n, n)
                    /\ R.verts = zerosVec(n)
              /\ (op = "iterate_subgraphs" /\ R.sentinel) =>
                    /\ subgraph_list = << >>
                    /\ hashmap = {}

\* C5 witness: iterate_subgraphs was called with a required vertex on a graph
\* with edges, the reducer lost the required vertex in its second
\* activation and returned the sentinel, and the call has ended.
C5_Witness ==
    /\ IterDone
    /\ ret.some
    /\ ret.val.sentinel
    /\ passes = 2
    /\ argV.tag = "list"
    /\ A = zeros(Rows(argG), Rows(argG))
    /\ PySumSum(argG) >= 2

\* C7 (as claimed): on a well-formed input iterate_subgraphs runs to
\* completion and returns a list; building, looking up and inserting the
\* key never raises.
C7_WellFormedCallReturns ==
    (IterDone /\ WellFormed) => outcome = "returned"

\* C8 (as claimed): a vertex flagged 0 in the verts vector passed to
\* iterate_subgraphs is inactive in the reduced state of the call.
C8_SuppliedVertsAreHonoured ==
    (op = "iterate_subgraphs" /\ ret.some /\ argVerts.some) =>
        \A i \in DOMAIN argVerts.val :
            argVerts.val[i] = 0 => ret.val.verts[i] = 0

\* C9 (as claimed): removing an edge at an entry (i, j) of multiplicity m > 1
\* of the reduced matrix leaves multiplicity m - 1 in the child state.
C9_RemovalTakesOneParallelEdge ==
    (IterDone /\ ret.some) =>
        \A ij \in NonzeroPos(A) :
            A[ij[1]][ij[2]] > 1 =>
                remove_edge(A, ij[1], ij[2])[ij[1]][ij[2]] = A[ij[1]][ij[2]] - 1

\* C10 (as claimed): with default verts, k and v, on a matrix in which every
\* vertex has nonzero in- and out-degree and that has at least 2 edges, the
\* call returns a non-empty list whose first element is the input matrix
\* with vertexIndices 0..n-1.
C10_FullGraphIsFirstResult ==
    (/\ IterDone
     /\ IsSquare(argG)
     /\ ~argVerts.some /\ ~argK.some /\ argV.tag = "None"
     /\ \A i \in DOMAIN argG : RowSum(argG, i) # 0 /\ ColSum(argG, i) # 0
     /\ PySumSum(argG) >= 2) =>
        /\ outcome = "returned"
        /\ Len(subgraph_list) >= 1
        /\ subgraph_list[1] = [A |-> argG, verts |-> AscendingList(DOMAIN argG)]

----------------------------------------------------------------------------
(* C11..C20 *)

FnDone(name) == op = name /\ pc = "done"

\* f[0]*g[0] + ... + f[n-1]*g[n-1]
RECURSIVE DotUpTo(_, _, _)
DotUpTo(f, g, n) == IF n = 0 THEN 0 ELSE f[n - 1] * g[n - 1] + DotUpTo(f, g, n - 1)

RowOf(M, i) == M[i]

ColOf(M, j) == [i \in DOMAIN M |-> M[i][j]]

GivenOrOnes == IF argVerts.some THEN argVerts.val ELSE ones(Rows(argG))

\* the argument pair is a square n x n matrix with verts omitted or of shape (n, 1)
ShapesAgree ==
    /\ IsSquare(argG)
    /\ argVerts.some => VShape(argVerts) = << Rows(argG), 1 >>

\* C15: on a square n x n matrix and a verts of shape (n, 1) (all ones when
\* omitted) in_or_out_deg returns, in mode IN, the vector whose entry i is
\* the sum over j of A[i,j]*verts[j] and, in mode OUT, the vector whose
\* entry j is the sum over i of verts[i]*A[i,j]; the verts it was given is
\* what the caller still holds.
C15_DegreesAreMatrixVectorProducts ==
    (FnDone("in_or_out_deg") /\ ShapesAgree) =>
        /\ outcome = "returned"
        /\ result.some
        /\ DOMAIN result.val = DOMAIN argG
        /\ \A i \in DOMAIN argG :
              result.val[i] =
                  IF argMode = AllowedDegs_IN
                  THEN DotUpTo(RowOf(argG, i), GivenOrOnes, Rows(argG))
                  ELSE DotUpTo(GivenOrOnes, ColOf(argG, i), Rows(argG))
        /\ verts = argVerts

\* an OUT call with an inactive vertex on a matrix whose two products differ
C15_Witness ==
    /\ FnDone("in_or_out_deg")
    /\ outcome = "returned"
    /\ argMode = AllowedDegs_OUT
    /\ argVerts.some
    /\ \E i \in DOMAIN argG : argVerts.val[i] = 0
    /\ \E i \in DOMAIN argG : result.val[i] # 0
    /\ result.val # in_or_out_deg(argG, AllowedDegs_IN, argVerts)

\* C16 (as claimed): with a verts vector given, the degree in_or_out_deg
\* reports for an inactive vertex is 0 and the one it reports for an active
\* vertex is its full degree in the given matrix (all edges of A counted),
\* so that the 3-cycle with verts [1,0,1] gives [1,0,1] in both modes.
C16_InactiveZeroActiveFullDegree ==
    (FnDone("in_or_out_deg") /\ outcome = "returned" /\ argVerts.some) =>
        \A i \in DOMAIN argG :
            result.val[i] =
                IF argVerts.val[i] = 0 THEN 0
                ELSE IF argMode = AllowedDegs_IN
                     THEN RowSum(argG, i) ELSE ColSum(argG, i)

\* C17: dimen_type_val returns exactly when the matrix is square n x n and
\* verts is omitted or of shape (n, 1); it then returns the input matrix
\* and the supplied verts, or n ones when verts was omitted; in every other
\* case (non-square matrix, the (1, 0) array, verts of another length, 1-D
\* verts of length n) it raises ValueError and returns nothing.
C17_ReturnsExactlyOnAgreeingShapes ==
    FnDone("dimen_type_val") =>
        /\ ShapesAgree <=> outcome = "returned"
        /\ ~ShapesAgree => outcome = "ValueError" /\ ~result.some
        /\ ShapesAgree =>
              /\ result.some
              /\ result.val.A = argG
              /\ result.val.verts =
                    IF argVerts.some THEN argVerts.val
                    ELSE [i \in Idx(Rows(argG)) |-> 1]

\* a 1-D verts of length n >= 1 on a square matrix was rejected
C17_Witness ==
    /\ FnDone("dimen_type_val")
    /\ IsSquare(argG)
    /\ Rows(argG) >= 1
    /\ argVerts.some
    /\ "ndim" \in DOMAIN argVerts
    /\ Len1(argVerts.val) = Rows(argG)
    /\ outcome = "ValueError"

\* C18: on an n x n matrix A and verts of shape (n, 1) prune_graph returns
\* (P, idx) where idx is the strictly ascending list of the indices i with
\* verts[i] # 0 and P is the Len(idx) x Len(idx) matrix with
\* P[a,b] = A[idx[a], idx[b]].
C18_PruneKeepsActiveRowsAndColumns ==
    (FnDone("prune_graph") /\ ShapesAgree) =>
        /\ outcome = "returned"
        /\ result.some
        /\ LET P == result.val.A
               idx == result.val.verts
               m == Len(idx)
           IN  /\ SeqElems(idx) = {i \in DOMAIN argG : GivenOrOnes[i] # 0}
               /\ \A p, q \in 1..m : p < q => idx[p] < idx[q]
               /\ DOMAIN P = Idx(m)
               /\ \A a \in Idx(m) : DOMAIN P[a] = Idx(m)
               /\ \A a, b \in Idx(m) : P[a][b] = argG[idx[a + 1]][idx[b + 1]]

\* vertex 0 was dropped together with an edge, two or more vertices and an
\* edge were kept
C18_Witness ==
    /\ FnDone("prune_graph")
    /\ outcome = "returned"
    /\ argVerts.some
    /\ Len(result.val.verts) >= 2
    /\ argVerts.val[0] = 0
    /\ RowSum(argG, 0) + ColSum(argG, 0) > 0
    /\ PySumSum(result.val.A) > 0

\* C19: pruning the result P of prune_graph again with Len(idx) ones passes
\* validation and returns P itself with the index list 0..m-1.
C19_PruneIsIdempotentOnFullyActive ==
    (FnDone("prune_graph") /\ outcome = "returned") =>
        LET P == result.val.A
            m == Len(result.val.verts)
            again == dimen_type_val(P, Some(ones(m)))
        IN  /\ again.ok
            /\ prune_graph(again.A, again.verts) =
                  [A |-> P, verts |-> [p \in 1..m |-> p - 1]]

\* the first pruning dropped a vertex and kept a matrix that is not symmetric
C19_Witness ==
    /\ FnDone("prune_graph")
    /\ outcome = "returned"
    /\ Len(result.val.verts) < Rows(argG)
    /\ \E a, b \in DOMAIN result.val.A : result.val.A[a][b] # result.val.A[b][a]

\* no non-empty set of vertices in which every vertex has an edge into the set
Acyclic(M) ==
    ~\E S \in SUBSET DOMAIN M :
        /\ S # {}
        /\ \A i \in S : \E j \in S : M[i][j] # 0

\* C11 (as claimed): on an input without a directed cycle iterate_subgraphs
\* returns the empty list, the reduced state being the all-zero matrix with
\* every vertex stripped.
C11_AcyclicInputGivesEmptyList ==
    (IterDone /\ ShapesAgree /\ Acyclic(argG)) =>
        /\ outcome = "returned"
        /\ subgraph_list = << >>
        /\ A = zeros(Rows(argG), Rows(argG))

IsMatrix(M, n) == DOMAIN M = Idx(n) /\ \A i \in Idx(n) : DOMAIN M[i] = Idx(n)

IsVector01(w, n) == DOMAIN w = Idx(n) /\ \A i \in Idx(n) : w[i] \in {0, 1}

\* C14: during a call of iterate_subgraphs on an n x n matrix, the validated
\* input, every pair the reducer is entered with (which passes the
\* validation of line 146), every pair it returns (the sentinel included)
\* and the pair the memo key is built from consist of an n x n matrix and a
\* 0/1 vector of length n; a call on agreeing shapes never ends in the
\* shape error.
C14_ShapesArePreservedThroughTheCall ==
    (op = "iterate_subgraphs" /\ ShapesAgree /\ pc # "call") =>
        LET n == Rows(argG) IN
        /\ outcome # "ValueError"
        /\ IsMatrix(A, n)
        /\ verts.some /\ IsVector01(verts.val, n)
        /\ IsMatrix(rA, n) /\ IsVector01(rverts, n)
        /\ dimen_type_val(rA, Some(rverts)).ok
        /\ ret.some => IsMatrix(ret.val.A, n) /\ IsVector01(ret.val.verts, n)

\* the call went through several reducer activations on a matrix holding a
\* parallel edge and reached the memo lookup
C14_Witness ==
    /\ IterDone
    /\ passes >= 2
    /\ ret.some
    /\ \E i, j \in DOMAIN argG : argG[i][j] >= 2

\* C20: a call of iterate_subgraphs on a non-square matrix, or with a verts
\* whose shape does not agree with the matrix, ends at its first statement
\* with ValueError: no list is returned, no reducer activation ran, and the
\* memo table holds nothing.
C20_ShapeErrorPropagates ==
    (op = "iterate_subgraphs" /\ ~ShapesAgree /\ pc # "call") =>
        /\ pc = "done"
        /\ outcome = "ValueError"
        /\ subgraph_list = << >>
        /\ hashmap = {}
        /\ passes = 0
        /\ ~ret.some
        /\ A = Unbound

\* a square matrix with a verts of another length was rejected
C20_Witness ==
    /\ IterDone
    /\ IsSquare(argG)
    /\ argVerts.some
    /\ Len1(argVerts.val) # Rows(argG)
    /\ outcome = "ValueError"
    /\ passes = 0

\* C12 (as claimed): two successive top-level calls of iterate_subgraphs
\* with the same (graph, verts, k, v) and no hashmap each return a list, the
\* two lists are equal, and the second call starts from an empty memo table.
C12_RepeatedCallsReturnEqualLists ==
    (IterDone /\ calls = 2 /\ ShapesAgree) =>
        /\ hashmap = {}
        /\ prev.val.outcome = "returned"
        /\ outcome = "returned"
        /\ subgraph_list = prev.val.subgraph_list

\* C13: throughout a call of dimen_type_val,
\* validate_graph_sink_source_condition, prune_graph or iterate_subgraphs,
\* and when it has ended, the caller's matrix and verts objects hold what
\* they held at the call; and building the child state of lines 71-75 for any
\* nonzero entry (i, j) of the reduced matrix leaves the parent's matrix and
\* verts as they were, the child matrix being the parent's with the entry
\* (i, j) set to 0, the child verts a copy of the parent's, and every
\* array that existed before unchanged.
C13_InputsAreNeverMutated ==
    /\ heap[CallerG] = argG
    /\ argVerts.some => heap[CallerVerts] = argVerts.val
    /\ (op = "iterate_subgraphs" /\ pc = "done" /\ result.some) =>
          LET pA == result.val.A
              pv == result.val.verts
          IN  \A ij \in NonzeroPos(heap[pA]) :
                  LET c == child_state_refs(heap, pA, pv, ij[1], ij[2])
                      e == validate_graph_sink_source_condition_refs(
                               c.heap, c.A, c.verts, argV)
                  IN  /\ c.heap[c.A] = [heap[pA] EXCEPT ![ij[1]][ij[2]] = 0]
                      /\ c.heap[c.verts] = heap[pv]
                      /\ \A r \in 1 .. Len(heap) : e.heap[r] = heap[r]

\* the reducer, called with a verts vector, returned a matrix that differs
\* from the caller's: rows or columns were zeroed during the call
C13_Witness ==
    /\ op = "validate_graph_sink_source_condition"
    /\ pc = "done"
    /\ outcome = "returned"
    /\ argVerts.some
    /\ result.some
    /\ heap[result.val.A] # argG

----------------------------------------------------------------------------
(* C21..C29 *)

\* C21 (as claimed): a call of in_or_out_deg whose mode is not one of the
\* two members of AllowedDegs ends in an error and returns no vector, and a
\* call with one of the two members on agreeing shapes returns.
C21_InvalidModeFails ==
    FnDone("in_or_out_deg") =>
        /\ argMode.kind # "AllowedDegs" =>
              outcome \in {"ValueError", "TypeError"} /\ ~result.some
        /\ (argMode.kind = "AllowedDegs" /\ ShapesAgree) => outcome = "returned"

\* C22: zero_rows_and_cols(mat, vec, in_place) returns a matrix whose entry
\* (i, j) is 0 when vec[i] = 0 or vec[j] = 0 and mat[i, j] otherwise; with
\* in_place false the returned matrix is a new object and the caller's mat
\* holds what it held, with in_place true it is the caller's own object; vec
\* is left as it was.
C22_ZeroRowsAndColsValueAndFrame ==
    FnDone("zero_rows_and_cols") =>
        LET R == heap[result.val.A] IN
        /\ outcome = "returned"
        /\ DOMAIN R = DOMAIN argG
        /\ \A i, j \in DOMAIN argG :
              R[i][j] = IF argVerts.val[i] = 0 \/ argVerts.val[j] = 0
                        THEN 0 ELSE argG[i][j]
        /\ heap[CallerVec] = argVerts.val
        /\ ~argInPlace => result.val.A # CallerMat /\ heap[CallerMat] = argG
        /\ argInPlace => result.val.A = CallerMat /\ Len(heap) = 2

\* a call with the default in_place that zeroed a nonzero entry
C22_Witness ==
    /\ FnDone("zero_rows_and_cols")
    /\ ~argInPlace
    /\ heap[result.val.A] # argG
    /\ heap[CallerMat] = argG

\* a call of subgradient_descent, made by the caller or through
\* run_single_initialization, that has reached the loop
InDescent == sg # NoneVal /\ pc \in {"loop", "break", "done"}

\* |c| < tol
Converged(c, tol) == FloatLess(FloatAbs(c), tol)

\* the history a call with these max_iter and tol may return
ReturnedHistory(history, max_iter, tol) ==
    /\ Len(history) <= max_iter
    /\ \A p \in 1 .. Len(history) : history[p].iteration = p - 1
    /\ \A p \in 1 .. Len(history) - 1 : ~Converged(history[p].c, tol)
    /\ \/ Len(history) > 0 /\ Converged(history[Len(history)].c, tol)
       \/ Len(history) = max_iter

\* C23: subgradient_descent runs the loop body at most max_iter times and
\* the history holds one record per iteration run, numbered 0, 1, 2, ... in
\* order; no iteration is run after one whose c has |c| < tol; on return
\* the last recorded c has |c| < tol or the history has max_iter records,
\* and the history returned is that list.  The same holds of the history
\* each worker of run_multiple_initializations_parallel sends back.
C23_OneRecordPerIterationUntilConverged ==
    /\ InDescent =>
          LET history == sg.history
              len == Len(history)
          IN  /\ len <= sg.max_iter
              /\ len = sg.iteration
              /\ \A p \in 1 .. len : history[p].iteration = p - 1
              /\ \A p \in 1 .. len - 1 : ~Converged(history[p].c, sg.tol)
              /\ pc = "loop" => (len = 0 \/ ~Converged(history[len].c, sg.tol))
              /\ pc = "break" => Converged(history[len].c, sg.tol)
              /\ pc = "done" =>
                    /\ ReturnedHistory(history, sg.max_iter, sg.tol)
                    /\ result.val.history = history
    /\ op = "run_multiple_initializations_parallel" =>
          \A p \in DOMAIN args.results :
             ReturnedHistory(args.results[p].history, args.kwargs.max_iter,
                             args.kwargs.tol)

\* a call that returned after an iteration converged, before max_iter was
\* reached, having moved x in that iteration
C23_Witness ==
    /\ InDescent
    /\ pc = "done"
    /\ Len(sg.history) >= 1
    /\ Len(sg.history) < sg.max_iter
    /\ sg.x_0.some
    /\ sg.history[Len(sg.history)].x # sg.x_0.val
    /\ Converged(sg.history[Len(sg.history)].c, sg.tol)

\* C29 (as claimed): the array the caller passed as x_0 holds after the
\* call, and in every state of it, the values it held at the call.
C29_InitialVectorIsUnchanged ==
    (InDescent /\ sg.x_0.some) => heap[CallerX0] = sg.x_0.val

ReducerDone == op = "validate_graph_sink_source_condition" /\ pc = "done"

ActiveSet(w) == {i \in DOMAIN w : w[i] # 0}

\* the largest set of vertices of T in which every vertex has an edge to a
\* member and an edge from a member
GreatestClosedSubset(M, T) ==
    UNION {S \in SUBSET T :
             \A i \in S : (\E j \in S : M[i][j] # 0) /\ (\E j \in S : M[j][i] # 0)}

\* C24: when validate_graph_sink_source_condition returns without having
\* lost a required vertex, the active set S of the output is the largest
\* subset of the input-active vertices in which every vertex has an edge to
\* and an edge from a member of S, and the output matrix has the shape of
\* the input, equals it on S x S and is 0 in every other row and column.
C24_ReducerReturnsGreatestFixedPoint ==
    (ReducerDone /\ outcome = "returned" /\ ~ret.val.sentinel) =>
        LET S == GreatestClosedSubset(argG, ActiveSet(GivenOrOnes)) IN
        /\ ret.val.verts = [i \in DOMAIN argG |-> IF i \in S THEN 1 ELSE 0]
        /\ ret.val.A = [i \in DOMAIN argG |-> [j \in DOMAIN argG |->
                           IF i \in S /\ j \in S THEN argG[i][j] ELSE 0]]

\* a call that needed more than one pass and kept a vertex
C24_Witness ==
    /\ ReducerDone
    /\ outcome = "returned"
    /\ ~ret.val.sentinel
    /\ passes >= 2
    /\ ActiveSet(ret.val.verts) # {}
    /\ ActiveSet(ret.val.verts) # ActiveSet(GivenOrOnes)

\* the verts vector a pass ends with: the one of the recursive call or the
\* one returned
PassOutput(next_rverts, next_ret) ==
    IF next_ret.some THEN next_ret.val.verts ELSE next_rverts

\* C25 (as claimed): a pass of validate_graph_sink_source_condition that
\* does not return the sentinel keeps a vertex active only if it was
\* active and its in-degree and out-degree computed over the current verts
\* vector are both nonzero.
C25_DegreesOverCurrentVector ==
    [][(pc = "reducer" /\ passes' = passes + 1
        /\ ~(ret'.some /\ ret'.val.sentinel)) =>
          \A i \in DOMAIN rverts :
              PassOutput(rverts', ret')[i] # 0 =>
                  /\ rverts[i] # 0
                  /\ in_deg(rA, Some(rverts))[i] # 0
                  /\ out_deg(rA, Some(rverts))[i] # 0]_vars

\* a pass that does not return: the active set does not grow and a nonzero
\* entry of the matrix becomes 0
PassMakesProgress ==
    (pc = "reducer" /\ pc' = "reducer" /\ passes' = passes + 1) =>
        /\ ActiveSet(rverts') \subseteq ActiveSet(rverts)
        /\ \E i, j \in DOMAIN rA : rA[i][j] # 0 /\ rA'[i][j] = 0
        /\ \A i, j \in DOMAIN rA : rA'[i][j] \in {0, rA[i][j]}

\* C26: every call of validate_graph_sink_source_condition ends; a pass
\* that does not return leaves the active set no larger and zeroes at least
\* one nonzero entry; the result is returned after at most n + 1 passes.
C26_ReducerTerminatesWithinNPlusOnePasses ==
    /\ [][PassMakesProgress]_vars
    /\ [](op = "validate_graph_sink_source_condition" =>
            (IsSquare(argG) => passes <= Rows(argG) + 1))
    /\ <>(pc = "done")

\* a call with a supplied verts vector that returned in pass n + 1: each of
\* the first n passes zeroed an entry and went on (for n = 1 the call on
\* A = [[1]], verts = [[0]])
C26_Witness ==
    /\ ReducerDone
    /\ outcome = "returned"
    /\ argVerts.some
    /\ passes = Rows(argG) + 1

NonzeroCount(M) == Cardinality(NonzeroPos(M))

\* C27: every call of iterate_subgraphs ends.  The state a call on a
\* well-formed input works on (line 57) has no more nonzero entries than
\* the input has edges, and for every nonzero entry of it the state the
\* child call of that entry would work on (lines 71-77, then line 57) has
\* strictly fewer nonzero entries.  A child call is a call of
\* iterate_subgraphs on a matrix of the inputs considered, so the two bounds
\* limit every chain of calls to the edge count of the input.
C27_IterateTerminatesWithinEdgeCountDepth ==
    /\ [](IterReduced => NonzeroCount(A) <= PySumSum(argG))
    /\ [](IterReduced =>
            \A ij \in argwhere(A) :
                NonzeroCount(reduced_state(
                    child_state(A, verts.val, ij[1], ij[2], argV).A, argV).A)
                  < NonzeroCount(A))
    /\ <>(op = "iterate_subgraphs" /\ pc = "done")

\* a call with supplied verts, k and v that reached line 60 on a state with
\* an entry of multiplicity 2, the entry line 72 sets to 0
C27_Witness ==
    /\ IterReduced
    /\ argVerts.some /\ argK.some /\ argV.tag # "None"
    /\ \E ij \in argwhere(A) : A[ij[1]][ij[2]] = 2

\* C28 (as claimed): a call of iterate_subgraphs on a well-formed input
\* returns a list, and no two positions of the list hold the same (pruned
\* matrix, vertexIndices) pair.
C28_ResultListHasNoDuplicates ==
    (IterDone /\ WellFormed) =>
        /\ outcome = "returned"
        /\ \A p, q \in DOMAIN subgraph_list :
               p # q => subgraph_list[p] # subgraph_list[q]

====
